---- MODULE Spec2Model ----
\* unifi-monitor: the NetFlow/IPFIX packet parser (netflow/parser.py) and the UDP
\* flow listener (netflow/collector.py).
\*
\* Byte strings are sequences over 0..255; Python offsets are 0-based, so the byte
\* at Python offset o is b[o + 1].  Python dicts are functions whose DOMAIN is the
\* set of keys.  Decoded integers of arbitrary width (Python int) are kept as their
\* big-endian byte string and turned into a number only where the code does
\* arithmetic on them (an IPv4 address above 127.255.255.255 does not fit a TLC
\* integer).  A dotted-quad string "a.b.c.d" is the tuple <<a, b, c, d>>.
\*
\* IPFIXHeader, IPFIXSet and netflow.parse_packet belong to the `netflow` package
\* that parser.py imports (line 12-13); they are modelled at the call sites by what
\* the package does with the bytes it is handed, including the exception classes
\* it raises.  Inputs are kept to the part of its behaviour that is modelled: set
\* bodies without padding, no options templates, legacy packets of version 5.
EXTENDS Integers, Sequences, FiniteSets, TLC

VARIABLES
    templates,      \* NetFlowProtocol.templates / the dict handed to parse_packet
    hist,           \* parser runs: the packets handed to parse_packet so far
    lastPre,        \* the Template Store before the last parse_packet call
    lastOut,        \* what the last parse_packet call returned or raised
    batch,          \* NetFlowProtocol.batch
    _lock,          \* NetFlowProtocol._lock: "free" or the callback that holds it
    _last_flush,    \* NetFlowProtocol._last_flush
    _packets,       \* NetFlowProtocol._packets
    _flows,         \* NetFlowProtocol._flows
    now,            \* time.time()
    task,           \* the callback the event loop is running: "idle" when none
    pc,             \* its position
    dg_flows,       \* datagram_received: the local `flows`
    ts,             \* _flush: the argument `ts`
    batch_copy,     \* _flush: the local `batch_copy`
    inserted,       \* the insert_netflow_batch calls that wrote: <<ts, rows>>
    closed,         \* the transport has been closed
    timerDue,       \* periodic_flush: when its sleep ends
    timerAlive,     \* periodic_flush: the task has not ended
    log,            \* the records written to the log
    rx,             \* the last datagram the transport delivered: <<>> or <<d>>
    parsed,         \* the last datagram handed to parse_packet: <<>> or <<d>>
    parsing,        \* the parse_packet calls on the listener's store that have not ended
    submitted,      \* the row lists handed to insert_netflow_batch so far
    buffered,       \* the batch when connection_lost was called
    appended,       \* the records appended to the batch so far, in order
    flow_data,      \* extract_flow_fields: the record's `data` it is handed
    flow_fields,    \* extract_flow_fields: what it returned, <<>> before the call
    rules,          \* AlertEngine.rules
    _cooldowns,     \* AlertEngine._cooldowns
    wall,           \* time.time() as AlertEngine.evaluate last read it
    evaluated,      \* the evaluate calls so far: the time, the snapshot, the result
    _connections,   \* ConnectionManager._connections
    broadcast,      \* the frame of the broadcast coroutine: pc, data, ws, dead, used
    messages,       \* what each WebSocket's peer has been sent
    accepted,       \* the WebSockets that have been accepted
    trail,          \* since the last broadcast began: who was registered, sent to, left
    auth_username,  \* config.auth_username
    auth_password,  \* config.auth_password
    request,        \* BasicAuthMiddleware.dispatch: the request
    response,       \* what dispatch returned: <<>> before the call
    health_args,    \* _compute_health: wan, devices, alarms
    health,         \* what _compute_health returned: <<>> before the call
    tables,         \* the database: the rows of each table in insertion order
    db_time,        \* time.time() as the Database's callers and methods read it
    db_before,      \* the tables before the last Database call
    last_call,      \* the last Database call: method, arguments, result
    _csrf_token,    \* UnifiClient._csrf_token
    _authenticated, \* UnifiClient._authenticated
    call,           \* the UnifiClient call in progress or ended last: its frame
    last_op,        \* "close" when close() was the last UnifiClient step
    _running,       \* Poller._running
    _success_count, \* Poller._success_count
    _error_count,   \* Poller._error_count
    _cycle_count,   \* Poller._cycle_count
    poll,           \* the _poll_cycle call: where it is, the sub-polls it attempted
    passed          \* the poll cycles whose ensure_auth returned

pvars == <<templates, hist, lastPre, lastOut>>
cvars == <<batch, _lock, _last_flush, _packets, _flows, now, task, pc, dg_flows, ts,
           batch_copy, inserted, closed, timerDue, timerAlive, log, rx, parsed, parsing,
           submitted, buffered, appended>>
evars == <<flow_data, flow_fields>>
avars == <<rules, _cooldowns, wall, evaluated>>
wvars == <<_connections, broadcast, messages, accepted, trail>>
rvars == <<auth_username, auth_password, request, response>>
hvars == <<health_args, health>>
dvars == <<tables, db_time, db_before, last_call>>
uvars == <<_csrf_token, _authenticated, call, last_op>>
ovars == <<_running, _success_count, _error_count, _cycle_count, poll, passed>>
xvars == <<evars, avars, wvars, rvars, hvars, dvars, uvars, ovars>>
vars == <<pvars, cvars, xvars>>
\* what a call of extract_flow_fields leaves alone
NotExtract == <<pvars, cvars, avars, wvars, rvars, hvars, dvars, uvars, ovars>>
\* what a call of AlertEngine.evaluate leaves alone
NotAlerts == <<pvars, cvars, evars, wvars, rvars, hvars, dvars, uvars, ovars>>
\* what the ConnectionManager's methods leave alone
NotWs == <<pvars, cvars, evars, avars, rvars, hvars, dvars, uvars, ovars>>
\* what _compute_health leaves alone
NotHealth == <<pvars, cvars, evars, avars, wvars, rvars, dvars, uvars, ovars>>
\* what the Database's methods leave alone
NotDb == <<pvars, cvars, evars, avars, wvars, rvars, hvars, uvars, ovars>>
\* what the UnifiClient and the Poller leave alone
NotClient == <<pvars, cvars, evars, avars, wvars, rvars, hvars, dvars>>
\* what BasicAuthMiddleware.dispatch leaves alone
NotAuth == <<pvars, cvars, evars, avars, wvars, hvars, dvars, uvars, ovars>>

\* ------------------------------------------------------------------ bounds
MaxHist == 3
MaxPackets == 2
MaxLog == 1
MaxTicks == 4
MaxEvals == 3
MaxSockets == 3
MaxBroadcasts == 2
MaxText == 3
MaxDevices == 3
MaxAlarms == 7
MaxInserts == 2
MaxDbTicks == 2
MaxCycles == 2
Epoch == 1000

\* ------------------------------------------------------------- byte helpers
Min(a, b) == IF a < b THEN a ELSE b

\* data[lo:hi] of Python (0-based, half-open, clipped to the data)
Slice(data, lo, hi) ==
    IF lo >= Min(hi, Len(data)) THEN <<>> ELSE SubSeq(data, lo + 1, Min(hi, Len(data)))

\* struct.unpack("!H", b[o:o+2])
U16(b, o) == b[o + 1] * 256 + b[o + 2]

\* A datagram's payload is held as its bytes up to the last non-zero one that
\* matters and the number of zero bytes that follow: [head, pad].
Bytes(head, pad) == [head |-> head, pad |-> pad]
BLen(d) == Len(d.head) + d.pad
BAt(d, i) == IF i <= Len(d.head) THEN d.head[i] ELSE 0
\* d[lo:hi] as a plain byte sequence
BSlice(d, lo, hi) ==
    LET end == Min(hi, BLen(d))
    IN  IF lo >= end THEN <<>> ELSE [i \in 1..(end - lo) |-> BAt(d, lo + i)]
BU16(d, o) == BAt(d, o + 1) * 256 + BAt(d, o + 2)

RECURSIVE Concat(_)
Concat(ss) == IF ss = <<>> THEN <<>> ELSE Head(ss) \o Concat(Tail(ss))

\* an unsigned integer as n big-endian bytes (the exporter's side of the wire)
RECURSIVE ToBytes(_, _)
ToBytes(v, n) == IF n = 0 THEN <<>> ELSE ToBytes(v \div 256, n - 1) \o <<v % 256>>

\* a Python int held as its big-endian bytes without leading zeros (0 is <<>>)
RECURSIVE Strip(_)
Strip(b) == IF b # <<>> /\ Head(b) = 0 THEN Strip(Tail(b)) ELSE b

\* int(v) for a value that fits a machine integer
RECURSIVE ToInt(_)
ToInt(b) == IF b = <<>> THEN 0 ELSE ToInt(SubSeq(b, 1, Len(b) - 1)) * 256 + b[Len(b)]

\* dict helpers
Get(d, k, default) == IF k \in DOMAIN d THEN d[k] ELSE default
Put(d, k, v) == [x \in DOMAIN d \cup {k} |-> IF x = k THEN v ELSE d[x]]
Update(d, e) == [x \in DOMAIN d \cup DOMAIN e |-> IF x \in DOMAIN e THEN e[x] ELSE d[x]]
EmptyDict == <<>>

\* ------------------------------------------------- netflow package: IPFIX sets
\* The exception classes of the package and of Python that reach parser.py.
\* IPFIXTemplateNotRecognized is a KeyError; the others are unrelated classes.
\* None as a template value: `not template` holds of None and of an empty field
\* list alike, and a template record without fields is stored as None.
None == <<>>
NoName == "None"
NoExc == "none"

\* IPFIXFieldTypes.by_id: the IANA information elements the inputs use; any other
\* id has no entry (None).
FieldName(id) ==
    CASE id = 1 -> "octetDeltaCount"
      [] id = 2 -> "packetDeltaCount"
      [] id = 4 -> "protocolIdentifier"
      [] id = 7 -> "sourceTransportPort"
      [] id = 8 -> "sourceIPv4Address"
      [] id = 11 -> "destinationTransportPort"
      [] id = 12 -> "destinationIPv4Address"
      [] id = 27 -> "sourceIPv6Address"
      [] id = 28 -> "destinationIPv6Address"
      [] id = 60 -> "ipVersion"
      [] OTHER -> NoName

\* IPFIXDataTypes.is_bytes of the element's data type (ipv4Address, ipv6Address)
IsBytesType(id) == id \in {8, 12, 27, 28}

\* parse_fields(data, count): `count` field specifiers, 4 bytes each, or 8 when the
\* enterprise bit of the first byte is set.  data[offset] past the end is an
\* IndexError, a short specifier a struct.error.
RECURSIVE parse_fields(_, _, _, _)
parse_fields(data, count, offset, acc) ==
    IF count = 0 THEN [exc |-> NoExc, fields |-> acc, offset |-> offset]
    ELSE IF offset >= Len(data) THEN [exc |-> "IndexError", fields |-> acc, offset |-> offset]
    ELSE IF data[offset + 1] >= 128
    THEN IF Len(data) - offset < 8
         THEN [exc |-> "struct.error", fields |-> acc, offset |-> offset]
         ELSE parse_fields(data, count - 1, offset + 8,
                  Append(acc, [id |-> U16(data, offset) - 32768,
                               length |-> U16(data, offset + 2), ent |-> TRUE]))
    ELSE IF Len(data) - offset < 4
         THEN [exc |-> "struct.error", fields |-> acc, offset |-> offset]
         ELSE parse_fields(data, count - 1, offset + 4,
                  Append(acc, [id |-> U16(data, offset),
                               length |-> U16(data, offset + 2), ent |-> FALSE]))

\* IPFIXTemplateRecord(data): [template-id:2][field-count:2][field specifiers]
TemplateRecordOf(data, r) ==
    [exc |-> r.exc, template_id |-> U16(data, 0), field_count |-> U16(data, 2),
     fields |-> r.fields, length |-> 4 + r.offset]

IPFIXTemplateRecord(data) ==
    IF Len(data) < 4
    THEN [exc |-> "struct.error", template_id |-> 0, field_count |-> 0, fields |-> <<>>, length |-> 0]
    ELSE TemplateRecordOf(data, parse_fields(Slice(data, 4, Len(data)), U16(data, 2), 0, <<>>))

\* The first loop of IPFIXDataRecord over the template: the first field that
\* cannot be put into the unpack format raises.
FieldExc(f) ==
    IF FieldName(f.id) = NoName
    THEN IF f.ent THEN "AttributeError" ELSE "NotImplementedError"
    ELSE IF IsBytesType(f.id) \/ f.length \in {1, 2, 4, 8} THEN NoExc
    ELSE "IPFIXTemplateError"

RECURSIVE TemplateExc(_, _)
TemplateExc(template, i) ==
    IF i > Len(template) THEN NoExc
    ELSE IF FieldExc(template[i]) # NoExc THEN FieldExc(template[i])
    ELSE TemplateExc(template, i + 1)

\* the byte offset of field i of a template inside a record (i = Len + 1: its size)
RECURSIVE FieldOffset(_, _)
FieldOffset(template, i) ==
    IF i <= 1 THEN 0 ELSE FieldOffset(template, i - 1) + template[i - 1].length

\* IPFIXDataRecord(data, template): every field an unsigned big-endian integer of
\* the declared width, keyed by the element's name.
FieldValue(data, template, i, o) == Strip(Slice(data, o, o + template[i].length))

DataRecordOf(data, template, size, texc) ==
    IF texc # NoExc THEN [exc |-> texc, length |-> size, data |-> EmptyDict]
    ELSE IF Len(data) < size THEN [exc |-> "struct.error", length |-> size, data |-> EmptyDict]
    ELSE [exc |-> NoExc, length |-> size,
          data |-> [n \in {FieldName(template[i].id) : i \in 1..Len(template)} |->
                      FieldValue(data, template,
                          CHOOSE j \in 1..Len(template) : FieldName(template[j].id) = n,
                          FieldOffset(template,
                              CHOOSE j \in 1..Len(template) : FieldName(template[j].id) = n))]]

IPFIXDataRecord(data, template) ==
    DataRecordOf(data, template, FieldOffset(template, Len(template) + 1),
                 TemplateExc(template, 1))

\* the template-set loop of IPFIXSet: a record with no fields is a withdrawal (None)
RECURSIVE TemplateRecords(_, _, _, _)
TemplateRecordsStep(data, length, offset, acc, rec) ==
    IF rec.exc # NoExc THEN [exc |-> rec.exc, templates |-> acc]
    ELSE TemplateRecords(data, length, offset + rec.length,
             Put(acc, rec.template_id, IF rec.field_count = 0 THEN None ELSE rec.fields))

TemplateRecords(data, length, offset, acc) ==
    IF offset >= length THEN [exc |-> NoExc, templates |-> acc]
    ELSE TemplateRecordsStep(data, length, offset, acc,
                             IPFIXTemplateRecord(Slice(data, offset, Len(data))))

\* the data-set loop of IPFIXSet
RECURSIVE DataRecords(_, _, _, _, _)
DataRecordsStep(data, length, offset, template, acc, rec) ==
    IF rec.exc # NoExc THEN [exc |-> rec.exc, records |-> acc]
    ELSE DataRecords(data, length, offset + rec.length, template, Append(acc, rec.data))

DataRecords(data, length, offset, template, acc) ==
    IF offset >= length THEN [exc |-> NoExc, records |-> acc]
    ELSE IF template = None
    THEN [exc |-> "IPFIXTemplateNotRecognized", records |-> acc]
    ELSE DataRecordsStep(data, length, offset, template, acc,
                         IPFIXDataRecord(Slice(data, offset, Len(data)), template))

\* IPFIXSet(data, templates): set id 2 is a template set, ids from 256 are data
\* sets; other ids carry nothing (options templates, id 3, are not modelled).
TemplateSetOf(r) ==
    [exc |-> r.exc, is_template |-> TRUE, is_data |-> FALSE,
     templates |-> r.templates, records |-> <<>>]

DataSetOf(r) ==
    [exc |-> r.exc, is_template |-> FALSE, is_data |-> TRUE,
     templates |-> EmptyDict, records |-> r.records]

IPFIXSetBody(data, ipfix_templates, set_id, length) ==
    IF set_id = 2 THEN TemplateSetOf(TemplateRecords(data, length, 4, EmptyDict))
    ELSE IF set_id = 3
    THEN [exc |-> "NotModelled", is_template |-> TRUE, is_data |-> FALSE,
          templates |-> EmptyDict, records |-> <<>>]
    ELSE IF set_id >= 256
    THEN DataSetOf(DataRecords(data, length, 4, Get(ipfix_templates, set_id, None), <<>>))
    ELSE [exc |-> NoExc, is_template |-> FALSE, is_data |-> FALSE,
          templates |-> EmptyDict, records |-> <<>>]

IPFIXSet(data, ipfix_templates) ==
    IF Len(data) < 4
    THEN [exc |-> "struct.error", is_template |-> FALSE, is_data |-> FALSE,
          templates |-> EmptyDict, records |-> <<>>]
    ELSE IPFIXSetBody(data, ipfix_templates, U16(data, 0), U16(data, 2))


\* --------------------------------------------------------------- parser.py
\* (mutant) the octets packed in host order on a little-endian machine
int_to_ipv4_hostorder(val) ==
    IF val = <<>> THEN <<0, 0, 0, 0>>
    ELSE LET b == <<0, 0, 0, 0>> \o val
         IN  <<b[Len(b)], b[Len(b) - 1], b[Len(b) - 2], b[Len(b) - 3]>>

\* int_to_ipv4: val & 0xFFFFFFFF as four octets; 0 is "0.0.0.0"
int_to_ipv4(val) ==
    IF val = <<>> THEN <<0, 0, 0, 0>>
    ELSE LET b == <<0, 0, 0, 0>> \o val IN SubSeq(b, Len(b) - 3, Len(b))

\* int_to_ipv6: the 16 bytes of val (the text form is written from them); 0 is
\* "::"; a value wider than 16 bytes (OverflowError) is str(val)
int_to_ipv6(val) ==
    IF val = <<>> THEN [i \in 1..16 |-> 0]
    ELSE IF Len(val) > 16 THEN <<"str", val>>
    ELSE [i \in 1..(16 - Len(val)) |-> 0] \o val

PyInt(v) == ToInt(v)

\* (mutants) the three rewrites below share the record they build
FlowFields(src_ip, dst_ip, src_port, dst_port, protocol, bytes, packets) ==
    [src_ip |-> src_ip, dst_ip |-> dst_ip, src_port |-> PyInt(src_port),
     dst_port |-> PyInt(dst_port), protocol |-> PyInt(protocol), bytes |-> PyInt(bytes),
     packets |-> PyInt(packets)]

\* (mutant) data[name] in place of data.get(name, 0) for the counters: KeyError
extract_flow_fields_subscript(data) ==
    IF {"octetDeltaCount", "packetDeltaCount"} \subseteq DOMAIN data
    THEN FlowFields(int_to_ipv4(Get(data, "sourceIPv4Address", Get(data, "IPV4_SRC_ADDR", <<>>))),
                    int_to_ipv4(Get(data, "destinationIPv4Address", Get(data, "IPV4_DST_ADDR", <<>>))),
                    Get(data, "sourceTransportPort", Get(data, "L4_SRC_PORT", <<>>)),
                    Get(data, "destinationTransportPort", Get(data, "L4_DST_PORT", <<>>)),
                    Get(data, "protocolIdentifier", Get(data, "PROTOCOL", <<>>)),
                    data["octetDeltaCount"], data["packetDeltaCount"])
    ELSE [exc |-> "KeyError"]

\* (mutant) the legacy alias is looked up first
extract_flow_fields_alias_first(data) ==
    FlowFields(int_to_ipv4(Get(data, "IPV4_SRC_ADDR", Get(data, "sourceIPv4Address", <<>>))),
               int_to_ipv4(Get(data, "IPV4_DST_ADDR", Get(data, "destinationIPv4Address", <<>>))),
               Get(data, "L4_SRC_PORT", Get(data, "sourceTransportPort", <<>>)),
               Get(data, "L4_DST_PORT", Get(data, "destinationTransportPort", <<>>)),
               Get(data, "PROTOCOL", Get(data, "protocolIdentifier", <<>>)),
               Get(data, "IN_BYTES", Get(data, "octetDeltaCount", <<>>)),
               Get(data, "IN_PKTS", Get(data, "packetDeltaCount", <<>>)))

\* (mutant) each address is IPv6 when the record has its IPv6 field
extract_flow_fields_by_presence(data) ==
    FlowFields(IF "sourceIPv6Address" \in DOMAIN data
               THEN int_to_ipv6(data["sourceIPv6Address"])
               ELSE int_to_ipv4(Get(data, "sourceIPv4Address", Get(data, "IPV4_SRC_ADDR", <<>>))),
               IF "destinationIPv6Address" \in DOMAIN data
               THEN int_to_ipv6(data["destinationIPv6Address"])
               ELSE int_to_ipv4(Get(data, "destinationIPv4Address", Get(data, "IPV4_DST_ADDR", <<>>))),
               Get(data, "sourceTransportPort", Get(data, "L4_SRC_PORT", <<>>)),
               Get(data, "destinationTransportPort", Get(data, "L4_DST_PORT", <<>>)),
               Get(data, "protocolIdentifier", Get(data, "PROTOCOL", <<>>)),
               Get(data, "octetDeltaCount", Get(data, "IN_BYTES", <<>>)),
               Get(data, "packetDeltaCount", Get(data, "IN_PKTS", <<>>)))

extract_flow_fields(data) ==
    LET ip_ver == Get(data, "ipVersion", <<4>>)
        src_ip == IF ip_ver = <<6>>
                  THEN int_to_ipv6(Get(data, "sourceIPv6Address", <<>>))
                  ELSE int_to_ipv4(Get(data, "sourceIPv4Address",
                                       Get(data, "IPV4_SRC_ADDR", <<>>)))
        dst_ip == IF ip_ver = <<6>>
                  THEN int_to_ipv6(Get(data, "destinationIPv6Address", <<>>))
                  ELSE int_to_ipv4(Get(data, "destinationIPv4Address",
                                       Get(data, "IPV4_DST_ADDR", <<>>)))
    IN  [src_ip |-> src_ip,
         dst_ip |-> dst_ip,
         src_port |-> PyInt(Get(data, "sourceTransportPort", Get(data, "L4_SRC_PORT", <<>>))),
         dst_port |-> PyInt(Get(data, "destinationTransportPort", Get(data, "L4_DST_PORT", <<>>))),
         protocol |-> PyInt(Get(data, "protocolIdentifier", Get(data, "PROTOCOL", <<>>))),
         bytes |-> PyInt(Get(data, "octetDeltaCount", Get(data, "IN_BYTES", <<>>))),
         packets |-> PyInt(Get(data, "packetDeltaCount", Get(data, "IN_PKTS", <<>>)))]

MapExtract(records) == [i \in 1..Len(records) |-> extract_flow_fields(records[i])]

\* (mutant) the unknown-template exception is not among the caught ones
CaughtIpfixNoUnknown(exc) ==
    exc \in {"IPFIXTemplateError", "struct.error", "ValueError"}

\* the except clauses of _parse_ipfix (lines 127-130) and _parse_netflow (line 92)
CaughtIpfix(exc) ==
    exc \in {"IPFIXTemplateNotRecognized", "IPFIXTemplateError",
             "struct.error", "ValueError", "KeyError"}

\* (mutant) struct.error is not among the caught exceptions
CaughtNetflowNoStruct(exc) == exc \in {"ValueError", "KeyError", "IPFIXTemplateNotRecognized"}

CaughtNetflow(exc) ==
    exc \in {"struct.error", "ValueError", "KeyError", "IPFIXTemplateNotRecognized"}

\* (mutant) the store is replaced by the set's templates instead of updated
ApplyTemplatesReplace(ipfix_templates, new) ==
    [t \in {x \in DOMAIN new : new[x] # None} |-> new[t]]

\* (mutant) withdrawn entries are left in the store as None
ApplyTemplatesKeepNone(ipfix_templates, new) == Update(ipfix_templates, new)

\* (mutant) a redefinition appends its fields to the fields already stored
ApplyTemplatesMerge(ipfix_templates, new) ==
    LET u == [x \in DOMAIN ipfix_templates \cup DOMAIN new |->
                IF x \in DOMAIN new
                THEN IF x \in DOMAIN ipfix_templates /\ new[x] # None
                     THEN ipfix_templates[x] \o new[x] ELSE new[x]
                ELSE ipfix_templates[x]]
    IN  [t \in {x \in DOMAIN u : u[x] # None} |-> u[t]]

\* ipfix_templates.update(ipfix_set.templates), then every None entry is deleted
ApplyTemplates(ipfix_templates, new) ==
    LET u == Update(ipfix_templates, new)
    IN  [t \in {x \in DOMAIN u : u[x] # None} |-> u[t]]

IPFIXHeaderSize == 16

\* the while loop of _parse_ipfix, from `offset` on.  starts holds the offsets of
\* the sets handed to IPFIXSet so far, nsets their number.
RECURSIVE SetWalk(_, _, _, _, _, _)
Walked(flows, exc, ipfix_templates, starts) ==
    [flows |-> flows, exc |-> exc, ipfix |-> ipfix_templates, nsets |-> Len(starts),
     starts |-> starts]

\* lines 117-130 for one set: offset is already past the set
SetWalkStep(data, length, offset, ipfix_templates, flows, starts, ipfix_set) ==
    IF ipfix_set.exc # NoExc
    THEN IF CaughtIpfix(ipfix_set.exc)
         THEN SetWalk(data, length, offset, ipfix_templates, flows, starts)
         ELSE Walked(<<>>, ipfix_set.exc, ipfix_templates, starts)
    ELSE IF ipfix_set.is_template
    THEN SetWalk(data, length, offset, ApplyTemplates(ipfix_templates, ipfix_set.templates),
                 flows, starts)
    ELSE IF ipfix_set.is_data /\ ipfix_set.records # <<>>
    THEN SetWalk(data, length, offset, ipfix_templates,
                 flows \o MapExtract(ipfix_set.records), starts)
    ELSE SetWalk(data, length, offset, ipfix_templates, flows, starts)

\* (mutant) a set shorter than its header is stepped over and the walk goes on
SetWalkSetSkips(data, length, offset, ipfix_templates, flows, starts, set_len) ==
    IF set_len < 4 THEN SetWalk(data, length, offset + 4, ipfix_templates, flows, starts)
    ELSE SetWalkStep(data, length, offset + set_len, ipfix_templates, flows,
                     Append(starts, offset),
                     IPFIXSet(BSlice(data, offset, offset + set_len), ipfix_templates))

\* lines 110-115: the set header, the slice and the advance of the offset
SetWalkSet(data, length, offset, ipfix_templates, flows, starts, set_len) ==
    IF set_len < 4 THEN Walked(flows, NoExc, ipfix_templates, starts)
    ELSE SetWalkStep(data, length, offset + set_len, ipfix_templates, flows,
                     Append(starts, offset),
                     IPFIXSet(BSlice(data, offset, offset + set_len), ipfix_templates))

\* (mutant) the walk goes on to the end of the datagram, past header.length
SetWalkWholeDatagram(data, length, offset, ipfix_templates, flows, starts) ==
    IF ~(offset < BLen(data))
    THEN Walked(flows, NoExc, ipfix_templates, starts)
    ELSE IF offset + 4 > BLen(data)
    THEN Walked(flows, NoExc, ipfix_templates, starts)
    ELSE SetWalkSet(data, length, offset, ipfix_templates, flows, starts,
                    BU16(data, offset + 2))

SetWalk(data, length, offset, ipfix_templates, flows, starts) ==
    IF ~(offset < length /\ offset < BLen(data))
    THEN Walked(flows, NoExc, ipfix_templates, starts)
    ELSE IF offset + 4 > BLen(data)
    THEN Walked(flows, NoExc, ipfix_templates, starts)
    ELSE SetWalkSet(data, length, offset, ipfix_templates, flows, starts,
                    BU16(data, offset + 2))

Parsed(flows, exc, tpl, nsets) ==
    [flows |-> flows, exc |-> exc, templates |-> tpl, nsets |-> nsets]

IpfixResult(withKey, r) ==
    Parsed(r.flows, r.exc, [withKey EXCEPT !["ipfix"] = r.ipfix], r.nsets)

\* templates.setdefault("ipfix", {})
SetDefault(tpl) == IF "ipfix" \in DOMAIN tpl THEN tpl ELSE Put(tpl, "ipfix", EmptyDict)

\* _parse_ipfix(data, templates): [flows, exc, templates (the dict afterwards)]
parse_ipfix(data, tpl) ==
    IF BLen(data) < IPFIXHeaderSize
    THEN Parsed(<<>>, NoExc, SetDefault(tpl), 0)
    ELSE IpfixResult(SetDefault(tpl),
             SetWalk(data, BU16(data, 2), IPFIXHeaderSize, SetDefault(tpl)["ipfix"], <<>>, <<>>))

\* netflow.parse_packet for a legacy payload: version 5 is a 24-byte header with a
\* record count and 48-byte records; versions 1 and 9 are not modelled; any other
\* version raises UnknownExportVersion (an Exception).
V5HeaderLength == 24
V5DataFlowLength == 48

V5DataFlow(data) ==
    [IPV4_SRC_ADDR |-> Strip(Slice(data, 0, 4)),
     IPV4_DST_ADDR |-> Strip(Slice(data, 4, 8)),
     IN_PACKETS |-> Strip(Slice(data, 16, 20)),
     IN_OCTETS |-> Strip(Slice(data, 20, 24)),
     SRC_PORT |-> Strip(Slice(data, 32, 34)),
     DST_PORT |-> Strip(Slice(data, 34, 36)),
     PROTO |-> Strip(Slice(data, 38, 39))]

RECURSIVE V5Flows(_, _, _, _)
V5Flows(data, count, offset, acc) ==
    IF count = 0 THEN [exc |-> NoExc, flows |-> acc]
    ELSE IF Len(BSlice(data, offset, offset + V5DataFlowLength)) # V5DataFlowLength
    THEN [exc |-> "struct.error", flows |-> acc]
    ELSE V5Flows(data, count - 1, offset + V5DataFlowLength,
                 Append(acc, V5DataFlow(BSlice(data, offset, offset + V5DataFlowLength))))

netflow_parse_packet(data, tpl) ==
    LET version == BU16(data, 0)
    IN  IF version = 5
        THEN IF BLen(data) < V5HeaderLength THEN [exc |-> "struct.error", flows |-> <<>>]
             ELSE V5Flows(data, BU16(data, 2), V5HeaderLength, <<>>)
        ELSE IF version \in {1, 9} THEN [exc |-> "NotModelled", flows |-> <<>>]
        ELSE [exc |-> "UnknownExportVersion", flows |-> <<>>]

\* _parse_netflow(data, templates)
NetflowResult(tpl, export) ==
    IF export.exc = NoExc THEN Parsed(MapExtract(export.flows), NoExc, tpl, 0)
    ELSE IF CaughtNetflow(export.exc) THEN Parsed(<<>>, NoExc, tpl, 0)
    ELSE Parsed(<<>>, export.exc, tpl, 0)

parse_netflow(data, tpl) == NetflowResult(tpl, netflow_parse_packet(data, tpl))

\* (mutant) the version is read without the length having been looked at
parse_packet_unchecked(data, tpl) ==
    IF BLen(data) < 2
    THEN Parsed(<<>>, "struct.error", tpl, 0)
    ELSE IF BU16(data, 0) = 10 THEN parse_ipfix(data, tpl)
    ELSE parse_netflow(data, tpl)

\* parse_packet(data, templates)
parse_packet(data, tpl) ==
    IF BLen(data) < 4
    THEN Parsed(<<>>, NoExc, tpl, 0)
    ELSE IF BU16(data, 0) = 10 THEN parse_ipfix(data, tpl)
    ELSE parse_netflow(data, tpl)


\* ------------------------------------------------ inputs: the exporter's side
\* Template layouts an exporter declares: sequences of (element id, byte length).
F(id, length) == [id |-> id, length |-> length]

Layout(name) ==
    CASE name = "A" -> <<F(8, 4), F(12, 4), F(7, 2), F(11, 2), F(4, 1), F(1, 4)>>
      [] name = "B" -> <<F(8, 4), F(1, 4), F(2, 4)>>
      [] name = "Bad" -> <<F(8, 4), F(999, 2)>>
      [] name = "Odd" -> <<F(8, 4), F(1, 3)>>
      [] OTHER -> <<>>

\* Flows an exporter reports.
Flow(name) ==
    CASE name = "X" -> [src |-> <<192, 168, 1, 10>>, dst |-> <<8, 8, 8, 8>>, sport |-> 54321,
                        dport |-> 443, proto |-> 6, bytes |-> 50000, pkts |-> 7]
      [] name = "Y" -> [src |-> <<10, 0, 0, 5>>, dst |-> <<0, 0, 0, 0>>, sport |-> 53,
                        dport |-> 0, proto |-> 17, bytes |-> 300, pkts |-> 2]
      [] OTHER -> [src |-> <<0, 0, 0, 0>>, dst |-> <<0, 0, 0, 0>>, sport |-> 0,
                   dport |-> 0, proto |-> 0, bytes |-> 0, pkts |-> 0]

EncField(f, flow) ==
    CASE f.id = 8 -> flow.src
      [] f.id = 12 -> flow.dst
      [] f.id = 7 -> ToBytes(flow.sport, f.length)
      [] f.id = 11 -> ToBytes(flow.dport, f.length)
      [] f.id = 4 -> ToBytes(flow.proto, f.length)
      [] f.id = 1 -> ToBytes(flow.bytes, f.length)
      [] f.id = 2 -> ToBytes(flow.pkts, f.length)
      [] OTHER -> ToBytes(0, f.length)

EncRecord(layout, flow) == Concat([i \in 1..Len(layout) |-> EncField(layout[i], flow)])

EncRecords(layout, flows) ==
    Concat([i \in 1..Len(flows) |-> EncRecord(layout, Flow(flows[i]))])

EncSpecs(layout) ==
    Concat([i \in 1..Len(layout) |-> ToBytes(layout[i].id, 2) \o ToBytes(layout[i].length, 2)])

\* [set-id:2][set-length:2][payload]
Framed(set_id, body) == ToBytes(set_id, 2) \o ToBytes(4 + Len(body), 2) \o body

\* Set descriptors: a template definition, a withdrawal, a data set, and the
\* malformed ones: a set length below 4, a template whose field count is one more
\* than the specifiers it carries, a data set whose last record lacks a byte.
SetD(k, tid, layout, flows) == [k |-> k, tid |-> tid, layout |-> layout, flows |-> flows]

EncSet(s) ==
    CASE s.k = "tmpl" ->
            Framed(2, ToBytes(s.tid, 2) \o ToBytes(Len(Layout(s.layout)), 2)
                      \o EncSpecs(Layout(s.layout)))
      [] s.k = "tmplTrunc" ->
            Framed(2, ToBytes(s.tid, 2) \o ToBytes(Len(Layout(s.layout)) + 1, 2)
                      \o EncSpecs(Layout(s.layout)))
      [] s.k = "wd" -> Framed(2, ToBytes(s.tid, 2) \o ToBytes(0, 2))
      [] s.k = "data" -> Framed(s.tid, EncRecords(Layout(s.layout), s.flows))
      [] s.k = "dataTrunc" ->
            LET b == EncRecords(Layout(s.layout), s.flows)
            IN  Framed(s.tid, SubSeq(b, 1, Len(b) - 1))
      [] s.k = "short" -> ToBytes(s.tid, 2) \o ToBytes(3, 2)
      [] OTHER -> <<>>

\* the sets the header's length field counts: those before an "end" mark, which
\* itself encodes to nothing; the sets after it are bytes trailing the message
RECURSIVE Declared(_)
Declared(sets) ==
    IF sets = <<>> \/ Head(sets).k = "end" THEN <<>> ELSE <<Head(sets)>> \o Declared(Tail(sets))
EndOfMessage == SetD("end", 0, "-", <<>>)

Tmpl(tid, layout) == SetD("tmpl", tid, layout, <<>>)
Wd(tid) == SetD("wd", tid, "-", <<>>)
Data(tid, layout, flows) == SetD("data", tid, layout, flows)

\* Packet descriptors: version, sets (IPFIX) or flows (version 5), bytes cut from
\* the end, zero bytes appended after the message.
PacketD(ver, sets, flows, cut, pad) ==
    [ver |-> ver, sets |-> sets, flows |-> flows, cut |-> cut, pad |-> pad]

Ipfix(sets) == PacketD(10, sets, <<>>, 0, 0)

Zeros(n) == [i \in 1..n |-> 0]
Fill(n) == [i \in 1..n |-> 255]

EncV5Record(flow) ==
    flow.src \o flow.dst \o Zeros(8) \o ToBytes(flow.pkts, 4) \o ToBytes(flow.bytes, 4)
    \o Zeros(8) \o ToBytes(flow.sport, 2) \o ToBytes(flow.dport, 2)
    \o <<0, 0, flow.proto, 0>> \o Zeros(8)

\* The bytes on the wire.  IPFIX: [version:2][length:2][export time:4][sequence:4]
\* [domain:4] and the sets.  Legacy headers carry 0xFF in their counters, so the
\* payload is binary and not text.
Encode(p) ==
    LET whole ==
          IF p.ver = 10
          THEN LET body == Concat([i \in 1..Len(p.sets) |-> EncSet(p.sets[i])])
                   counted == Concat([i \in 1..Len(Declared(p.sets)) |-> EncSet(p.sets[i])])
               IN  ToBytes(10, 2) \o ToBytes(16 + Len(counted), 2) \o <<0, 0, 0, 1>>
                   \o <<0, 0, 0, 1>> \o Zeros(4) \o body
          ELSE IF p.ver = 5
          THEN ToBytes(5, 2) \o ToBytes(Len(p.flows), 2) \o Fill(20)
               \o Concat([i \in 1..Len(p.flows) |-> EncV5Record(Flow(p.flows[i]))])
          ELSE ToBytes(p.ver, 2) \o Fill(22)
    IN  Bytes(SubSeq(whole, 1, Len(whole) - p.cut), p.pad)

\* What a flow reported under a layout is as a normalized record: the fields the
\* layout carries, defaults for the others.
Expected(layout, flow) ==
    LET has(id) == \E i \in 1..Len(Layout(layout)) : Layout(layout)[i].id = id
        f == Flow(flow)
    IN  [src_ip |-> IF has(8) THEN f.src ELSE <<0, 0, 0, 0>>,
         dst_ip |-> IF has(12) THEN f.dst ELSE <<0, 0, 0, 0>>,
         src_port |-> IF has(7) THEN f.sport ELSE 0,
         dst_port |-> IF has(11) THEN f.dport ELSE 0,
         protocol |-> IF has(4) THEN f.proto ELSE 0,
         bytes |-> IF has(1) THEN f.bytes ELSE 0,
         packets |-> IF has(2) THEN f.pkts ELSE 0]

ExpectedAll(layout, flows) == [i \in 1..Len(flows) |-> Expected(layout, flows[i])]

\* The packets the parser is run on.
WellFormed ==
    { Ipfix(<<Tmpl(256, "A"), Data(256, "A", <<"X">>)>>),
      Ipfix(<<Tmpl(256, "B"), Data(256, "B", <<"X", "Y">>)>>),
      Ipfix(<<Tmpl(256, "A")>>),
      Ipfix(<<Tmpl(256, "B")>>),
      Ipfix(<<Data(256, "A", <<"Y", "X">>)>>),
      Ipfix(<<Data(256, "B", <<"Y">>)>>),
      Ipfix(<<Wd(256)>>),
      Ipfix(<<Wd(256), Data(256, "A", <<"X">>)>>),
      Ipfix(<<Data(300, "A", <<"X">>), Tmpl(256, "A"), Data(256, "A", <<"Y">>)>>) }

Malformed ==
    { Ipfix(<<Tmpl(256, "A"), Data(256, "A", <<"X">>), Tmpl(257, "Bad"),
              Data(257, "Bad", <<"Y">>)>>),
      Ipfix(<<Tmpl(256, "A"), Data(256, "A", <<"X">>),
              SetD("dataTrunc", 256, "A", <<"Y">>), Data(256, "A", <<"Y">>)>>),
      Ipfix(<<Tmpl(256, "A"), SetD("short", 256, "-", <<>>), Data(256, "A", <<"X">>)>>),
      Ipfix(<<Data(256, "A", <<"X">>), SetD("tmplTrunc", 258, "B", <<>>)>>),
      Ipfix(<<Tmpl(259, "Odd"), Data(259, "Odd", <<"X">>), Data(256, "A", <<"X">>)>>),
      PacketD(10, <<Tmpl(256, "A")>>, <<>>, 30, 0),
      PacketD(10, <<>>, <<>>, 13, 0),
      PacketD(10, <<>>, <<>>, 6, 0),
      Ipfix(<<Tmpl(256, "A"), EndOfMessage, Data(256, "A", <<"X">>)>>) }

Legacy ==
    { PacketD(5, <<>>, <<"X", "Y">>, 0, 0),
      PacketD(5, <<>>, <<"X", "Y">>, 1, 0),
      PacketD(7, <<>>, <<>>, 0, 0) }

Packets == WellFormed \cup Malformed \cup Legacy

\* the payload of each packet
Wire == [p \in Packets |-> Encode(p)]

\* ------------------------------------------------------- the parser on a store
NoOut == [flows |-> <<>>, exc |-> NoExc, nsets |-> 0]

\* NetFlowProtocol.__init__: self.templates = {"netflow": {}, "ipfix": {}}
NewTemplates == [netflow |-> EmptyDict, ipfix |-> EmptyDict]

\* --------------------------------------------------------------- alerts.py
\* An absent value (None) is <<>> and a present one <<v>>.  AlertRule.key, the
\* text metric_operator_threshold, is the triple it is written from.
AlertRule(metric, operator, threshold, cooldown_s) ==
    [metric |-> metric, operator |-> operator, threshold |-> threshold,
     cooldown_s |-> cooldown_s, key |-> <<metric, operator, threshold>>]

DEFAULT_RULES ==
    <<AlertRule("wan_status", "ne", "ok", 300),
      AlertRule("health_score", "lt", 50, 300),
      AlertRule("device_offline", "gt", 0, 300),
      AlertRule("wan_latency", "gt", 100, 600)>>

_extract_metric(snapshot, metric) ==
    CASE metric = "wan_status" -> snapshot.status
      [] metric = "wan_latency" -> snapshot.latency_ms
      [] metric = "health_score" -> snapshot.health_score
      [] metric = "device_offline" -> <<snapshot.total - snapshot.online>>
      [] metric = "client_signal" -> None    \* the snapshots list no wireless client
      [] OTHER -> None

OPERATORS == {"gt", "lt", "eq", "ne"}
op_fn(operator, v, t) ==
    CASE operator = "gt" -> v > t
      [] operator = "lt" -> v < t
      [] operator = "eq" -> v = t
      [] operator = "ne" -> v # t

\* lines 79-95: the rule has a value, a known operator, and the comparison is true
Condition(rule, snapshot) ==
    /\ _extract_metric(snapshot, rule.metric) # None
    /\ rule.operator \in OPERATORS
    /\ op_fn(rule.operator, _extract_metric(snapshot, rule.metric)[1], rule.threshold)

\* (mutant) the cooldown still runs at the instant it ends
InCooldownInclusive(t, last_fired, cooldown_s) == t - last_fired <= cooldown_s
\* line 99
InCooldown(t, last_fired, cooldown_s) == t - last_fired < cooldown_s

Alert(rule, snapshot, t) ==
    [rule |-> rule.key, value |-> _extract_metric(snapshot, rule.metric)[1], ts |-> t]

\* the loop of evaluate from rule i on: the cooldowns and the fired list
RECURSIVE EvaluateFrom(_, _, _, _, _, _)
EvaluateFrom(rs, i, snapshot, t, cooldowns, fired) ==
    IF i > Len(rs) THEN [cooldowns |-> cooldowns, fired |-> fired]
    ELSE IF ~Condition(rs[i], snapshot)
            \/ InCooldown(t, Get(cooldowns, rs[i].key, 0), rs[i].cooldown_s)
         THEN EvaluateFrom(rs, i + 1, snapshot, t, cooldowns, fired)
         ELSE EvaluateFrom(rs, i + 1, snapshot, t, Put(cooldowns, rs[i].key, t),
                           Append(fired, Alert(rs[i], snapshot, t)))

evaluate(rs, snapshot, t, cooldowns) == EvaluateFrom(rs, 1, snapshot, t, cooldowns, <<>>)

\* the engine of app.py, before its first evaluate
IdleAlerts ==
    /\ rules = DEFAULT_RULES
    /\ _cooldowns = EmptyDict
    /\ wall = Epoch
    /\ evaluated = <<>>

\* -------------------------------------------------------------------- ws.py
\* The WebSockets are numbered; a set is iterated in the order of its hash table,
\* here the order of the numbers, and its iterator raises RuntimeError when the
\* set's size is not the one it had when the iteration began.
Sockets == 1..MaxSockets
NoFrame == [pc |-> "idle", data |-> 0, ws |-> 0, dead |-> <<>>, used |-> 0]
NoTrail == [registered |-> {}, sent |-> {}, failed |-> {}, left |-> {}]

\* ConnectionManager.__init__
IdleWs ==
    /\ _connections = {}
    /\ broadcast = NoFrame
    /\ messages = [w \in Sockets |-> <<>>]
    /\ accepted = {}
    /\ trail = NoTrail

\* ------------------------------------------------ app.py: BasicAuthMiddleware
\* A string is the sequence of its characters ("U+00E9" is a non-ASCII one).  The Authorization header is its
\* scheme (the text before the first blank, "" when there is no header), whether
\* what follows decodes as base64 and UTF-8, and the text it decodes to.
NoHeader == [scheme |-> "", decodes |-> FALSE, text |-> <<>>]
NoRequest == [path |-> "/", header |-> NoHeader]
_SKIP_PATHS == {"/api/health"}

\* str.partition(":"): the text before the first colon and the text after it
RECURSIVE Before1st(_)
Before1st(text) ==
    IF text = <<>> \/ Head(text) = ":" THEN <<>> ELSE <<Head(text)>> \o Before1st(Tail(text))
After1st(text) ==
    IF Len(Before1st(text)) = Len(text) THEN <<>>
    ELSE SubSeq(text, Len(Before1st(text)) + 2, Len(text))

IsAscii(text) == \A i \in 1..Len(text) : text[i] # "U+00E9"
\* secrets.compare_digest on two str: TypeError unless both are ASCII
compare_digest(a, b) ==
    IF IsAscii(a) /\ IsAscii(b) THEN [exc |-> FALSE, eq |-> a = b]
    ELSE [exc |-> TRUE, eq |-> FALSE]

\* (mutant) the password is not compared
AuthorizedUserOnly(header, username, password) ==
    /\ header.scheme = "Basic"
    /\ header.decodes
    /\ ~compare_digest(Before1st(header.text), username).exc
    /\ compare_digest(Before1st(header.text), username).eq
\* lines 52-62: the request goes on from inside the try
Authorized(header, username, password) ==
    /\ header.scheme = "Basic"
    /\ header.decodes
    /\ ~compare_digest(Before1st(header.text), username).exc
    /\ compare_digest(Before1st(header.text), username).eq
    /\ ~compare_digest(After1st(header.text), password).exc
    /\ compare_digest(After1st(header.text), password).eq

\* dispatch: "next" is call_next(request), 401 the Unauthorized response
dispatch(req, username, password) ==
    IF username = <<>> \/ password = <<>> THEN "next"
    ELSE IF req.path \in _SKIP_PATHS THEN "next"
    ELSE IF Authorized(req.header, username, password) THEN "next"
    ELSE "401"

IdleAuth ==
    /\ auth_username = <<>>
    /\ auth_password = <<>>
    /\ request = NoRequest
    /\ response = <<>>

\* ------------------------------------------------ api/routes.py: the health score
\* wan is None (<<>>) or <<[status, latency_ms]>>, latency_ms None or <<ms>>;
\* devices is the list of the devices' `state`; alarms is their number.
wan_penalty(wan) ==
    IF wan = None \/ wan[1].status # "ok" THEN [points |-> 40, factor |-> <<"WAN down">>]
    ELSE IF wan[1].latency_ms # None /\ wan[1].latency_ms[1] > 100
         THEN [points |-> 15, factor |-> <<"High latency">>]
    ELSE IF wan[1].latency_ms # None /\ wan[1].latency_ms[1] > 50
         THEN [points |-> 5, factor |-> <<"Elevated latency">>]
    ELSE [points |-> 0, factor |-> <<>>]

offline(devices) == SelectSeq(devices, LAMBDA state : state # 1)

\* (mutant) 15 points for every offline device, without the cap
device_penalty_uncapped(devices) ==
    IF offline(devices) # <<>>
    THEN [points |-> 15 * Len(offline(devices)), factor |-> <<"device(s) offline">>]
    ELSE [points |-> 0, factor |-> <<>>]
\* line 79-83
device_penalty(devices) ==
    IF offline(devices) # <<>>
    THEN [points |-> Min(30, 15 * Len(offline(devices))), factor |-> <<"device(s) offline">>]
    ELSE [points |-> 0, factor |-> <<>>]

\* line 86-89
alarm_penalty(alarms) ==
    IF Min(30, 5 * alarms) # 0
    THEN [points |-> Min(30, 5 * alarms), factor |-> <<"active alarm(s)">>]
    ELSE [points |-> 0, factor |-> <<>>]

Scored(w, d, a) ==
    [score |-> IF 100 - w.points - d.points - a.points > 0
               THEN 100 - w.points - d.points - a.points ELSE 0,
     factors |-> w.factor \o d.factor \o a.factor]

_compute_health(wan, devices, alarms) ==
    Scored(wan_penalty(wan), device_penalty(devices), alarm_penalty(alarms))

IdleHealth ==
    /\ health_args = [wan |-> None, devices |-> <<>>, alarms |-> 0]
    /\ health = <<>>

\* -------------------------------------------------------------------- db.py
\* A table is the sequence of its rows in insertion order; a row is its ts, its
\* site and its other columns.  fetchone() of no row, None, is <<>>.
_VALID_TABLES == {"wan_metrics", "devices", "clients", "netflow", "alarms"}
Row(t, cols, site) == [ts |-> t, cols |-> cols, site |-> site]
RowsOf(t, items, site) == [i \in 1..Len(items) |-> Row(t, items[i], site)]
InsertInto(db, table, rows) == [db EXCEPT ![table] = @ \o rows]

insert_wan(db, t, status, site) == InsertInto(db, "wan_metrics", <<Row(t, status, site)>>)
insert_devices(db, t, devices, site) == InsertInto(db, "devices", RowsOf(t, devices, site))
insert_clients(db, t, clients, site) == InsertInto(db, "clients", RowsOf(t, clients, site))
insert_netflow_batch(db, t, flows, site) == InsertInto(db, "netflow", RowsOf(t, flows, site))
insert_alarms(db, t, alarms, site) == InsertInto(db, "alarms", RowsOf(t, alarms, site))

OfSite(rows, site) == SelectSeq(rows, LAMBDA r : r.site = site)

\* ORDER BY ts: a stable insertion sort
RECURSIVE InsertByTs(_, _)
InsertByTs(sorted, r) ==
    IF sorted = <<>> THEN <<r>>
    ELSE IF sorted[Len(sorted)].ts <= r.ts THEN Append(sorted, r)
    ELSE Append(InsertByTs(SubSeq(sorted, 1, Len(sorted) - 1), r), sorted[Len(sorted)])
RECURSIVE OrderByTs(_)
OrderByTs(rows) ==
    IF rows = <<>> THEN <<>>
    ELSE InsertByTs(OrderByTs(SubSeq(rows, 1, Len(rows) - 1)), rows[Len(rows)])

\* SELECT MAX(ts): None over no row
RECURSIVE MaxTs(_)
MaxTs(rows) ==
    IF rows = <<>> THEN None
    ELSE IF MaxTs(Tail(rows)) = None \/ MaxTs(Tail(rows))[1] < Head(rows).ts
         THEN <<Head(rows).ts>>
    ELSE MaxTs(Tail(rows))

get_wan_history(db, t, hours, site) ==
    OrderByTs(SelectSeq(db["wan_metrics"],
                        LAMBDA r : r.ts > t - hours * 3600 /\ r.site = site))

\* ORDER BY ts DESC LIMIT 1
get_latest_wan(db, site) ==
    IF OfSite(db["wan_metrics"], site) = <<>> THEN None
    ELSE <<OrderByTs(OfSite(db["wan_metrics"], site))[Len(OfSite(db["wan_metrics"], site))]>>

\* (mutant) the latest ts is taken over every site's rows
LatestOfAnySite(rows, site) ==
    IF MaxTs(rows) = None \/ MaxTs(rows)[1] = 0 THEN <<>>
    ELSE SelectSeq(rows, LAMBDA r : r.ts = MaxTs(rows)[1] /\ r.site = site)
\* get_latest_devices and get_latest_clients: the site's rows of its latest ts
Latest(rows, site) ==
    IF MaxTs(OfSite(rows, site)) = None \/ MaxTs(OfSite(rows, site))[1] = 0 THEN <<>>
    ELSE SelectSeq(rows, LAMBDA r : r.ts = MaxTs(OfSite(rows, site))[1] /\ r.site = site)

get_latest_devices(db, site) == Latest(db["devices"], site)
get_latest_clients(db, site) == Latest(db["clients"], site)

\* (mutant) DELETE ... WHERE ts <= ?
cleanup_inclusive(db, t, retention_hours) ==
    [table \in _VALID_TABLES |->
        SelectSeq(db[table], LAMBDA r : ~(r.ts <= t - retention_hours * 3600))]
cleanup(db, t, retention_hours) ==
    [table \in _VALID_TABLES |->
        SelectSeq(db[table], LAMBDA r : ~(r.ts < t - retention_hours * 3600))]

NoTables == [table \in _VALID_TABLES |-> <<>>]
NoCall == [op |-> "none", site |-> "", at |-> 0, arg |-> 0, result |-> <<>>]
DbStart == 4 * 3600

\* Database.__init__ on a new file
IdleDb ==
    /\ tables = NoTables
    /\ db_time = DbStart
    /\ db_before = NoTables
    /\ last_call = NoCall

\* the components the parser and the listener do not touch, before any call
IdleExtract ==
    /\ flow_data = EmptyDict
    /\ flow_fields = <<>>

\* ----------------------------------------------------------- unifi_client.py
\* a header value or an attribute is truthy: neither None nor the empty string
Truthy(v) == v # None /\ v # <<"">>

\* _update_csrf, lines 63-66: the token of the response, when it carries one,
\* replaces the stored one
HeaderToken(resp) == IF Truthy(resp.updated) THEN resp.updated ELSE resp.csrf
_update_csrf(token, resp) == IF Truthy(HeaderToken(resp)) THEN HeaderToken(resp) ELSE token

\* login, lines 46-52, once the POST has been answered with resp
login(token, authenticated, resp) ==
    IF resp.status # 200
    THEN [token |-> token, authenticated |-> FALSE, exc |-> "UnifiAuthError"]
    ELSE IF ~Truthy(_update_csrf(token, resp))
         THEN [token |-> _update_csrf(token, resp), authenticated |-> authenticated,
               exc |-> "UnifiAuthError"]
         ELSE [token |-> _update_csrf(token, resp), authenticated |-> TRUE, exc |-> NoExc]

\* (mutant) the repeated request is allowed to retry as well
retry_auth_always(frame) == TRUE

\* _request, lines 72 and 86: retry_auth is True in the caller's call and False
\* in the repeat
retry_auth(frame) == frame.pc = "first"

\* the frame of a UnifiClient call: the method, where it is, who called it, the
\* HTTP exchanges it has made with their responses, and how it ended
Frame(op, at, by) == [op |-> op, pc |-> at, by |-> by, seen |-> <<>>, result |-> "-"]
NoFrameYet == Frame("-", "idle", "-")

IdleClient ==
    /\ _csrf_token = None
    /\ _authenticated = FALSE
    /\ call = NoFrameYet
    /\ last_op = "-"

\* ---------------------------------------------------------------- poller.py
\* _poll_cycle, lines 145-150
poll_methods == <<"health", "devices", "clients", "alarms">>

\* (mutant) a sub-poll that raises ends the cycle
NextSubUnlessRaised(i, exc) ==
    IF exc # NoExc THEN 0 ELSE IF i < Len(poll_methods) THEN i + 1 ELSE 0

\* the for statement of line 152 after sub-poll i has ended with exc: the next
\* sub-poll, 0 after the last
NextSub(i, exc) == IF i < Len(poll_methods) THEN i + 1 ELSE 0

\* lines 155-163: the counter a sub-poll adds one to
Counter(exc) == IF exc = NoExc THEN "_success_count" ELSE "_error_count"

\* the _poll_cycle frame: where it is, the sub-poll it is at, the sub-polls it
\* has called
PollFrame(at, i, attempted) == [pc |-> at, i |-> i, attempted |-> attempted]
NotStarted == PollFrame("new", 0, <<>>)

IdlePoller ==
    /\ _running = FALSE
    /\ _success_count = 0
    /\ _error_count = 0
    /\ _cycle_count = 0
    /\ poll = NotStarted
    /\ passed = 0

InitOthers ==
    /\ IdleExtract /\ IdleAlerts /\ IdleWs /\ IdleAuth /\ IdleHealth /\ IdleDb
    /\ IdleClient /\ IdlePoller

\* ------------------------------------------------------------ collector.py
MAX_PACKET_SIZE == 65535
batch_interval == 10

\* NetFlowProtocol.__init__ at time 0, and start_collector's periodic_flush task
\* entering its first sleep
InitListener ==
    /\ batch = <<>>
    /\ _lock = "free"
    /\ _last_flush = 0
    /\ _packets = 0
    /\ _flows = 0
    /\ now = 0
    /\ task = "idle"
    /\ pc = "-"
    /\ dg_flows = <<>>
    /\ ts = 0
    /\ batch_copy = <<>>
    /\ inserted = <<>>
    /\ closed = FALSE
    /\ timerDue = batch_interval
    /\ timerAlive = TRUE
    /\ log = <<>>
    /\ rx = [d |-> <<>>, n |-> 0]
    /\ parsed = <<>>
    /\ parsing = 0
    /\ submitted = <<>>
    /\ buffered = <<>>
    /\ appended = <<>>

InitParser ==
    /\ templates = NewTemplates
    /\ hist = <<>>
    /\ lastPre = NewTemplates
    /\ lastOut = NoOut
    /\ InitListener
    /\ InitOthers

\* the dicts a caller hands to parse_packet: the listener's, and one that has no
\* "ipfix" entry yet (line 98 provides for it)
Stores == {NewTemplates, [netflow |-> EmptyDict]}

InitStores ==
    /\ templates \in Stores
    /\ hist = <<>>
    /\ lastPre = templates
    /\ lastOut = NoOut
    /\ InitListener
    /\ InitOthers

\* one call parse_packet(data, templates) on the store
Out(r) == [flows |-> r.flows, exc |-> r.exc, nsets |-> r.nsets]

Called(r) ==
    /\ templates' = r.templates
    /\ lastOut' = Out(r)
    /\ lastPre' = templates

Parse(p) ==
    /\ Len(hist) < MaxHist
    /\ Called(parse_packet(Wire[p], templates))
    /\ hist' = Append(hist, p)
    /\ UNCHANGED cvars
    /\ UNCHANGED xvars

NextParser == \E p \in Packets : Parse(p)

SpecParser == InitParser /\ [][NextParser]_vars

SpecStores == InitStores /\ [][NextParser]_vars

\* ------------------------------------------------------ claims on the parser
N == Len(hist)
Last == hist[Len(hist)]
Tids == {256, 257, 258, 259, 300}
Decodable == {"A", "B"}
IsPrefix(a, b) == Len(a) <= Len(b) /\ SubSeq(b, 1, Len(a)) = a

\* the packet is exactly a template set and a data set that references it
TmplThenData(p) ==
    /\ p.ver = 10 /\ p.cut = 0 /\ Len(p.sets) = 2
    /\ p.sets[1].k = "tmpl" /\ p.sets[2].k = "data"
    /\ p.sets[1].tid = p.sets[2].tid /\ p.sets[1].layout = p.sets[2].layout
    /\ p.sets[1].layout \in Decodable

\* C1: a well-formed IPFIX packet made of a template set and a data set that
\* references it yields one record per data record, each field the value the
\* exporter put under the template's layout, and defaults for the other fields.
C1_OneRecordPerDataRecord ==
    (N > 0 /\ TmplThenData(Last)) =>
        /\ lastOut.exc = NoExc
        /\ lastOut.flows = ExpectedAll(Last.sets[2].layout, Last.sets[2].flows)

C1_Witness ==
    /\ N > 1
    /\ Last = Ipfix(<<Tmpl(256, "A"), Data(256, "A", <<"X">>)>>)
    /\ lastOut.flows = <<[src_ip |-> <<192, 168, 1, 10>>, dst_ip |-> <<8, 8, 8, 8>>,
                          src_port |-> 54321, dst_port |-> 443, protocol |-> 6,
                          bytes |-> 50000, packets |-> 0]>>

\* set i of packet p is a data set whose template id the store cannot hold when
\* the walk reaches it: absent before the packet and defined by no earlier set
UnknownAt(p, i, store) ==
    /\ p.ver = 10 /\ p.cut = 0 /\ p.pad = 0
    /\ i \in 1..Len(p.sets)
    /\ p.sets[i].k = "data"
    /\ p.sets[i].tid \notin DOMAIN store["ipfix"]
    /\ \A j \in 1..(i - 1) : p.sets[j].tid # p.sets[i].tid

Without(p, i) ==
    [p EXCEPT !.sets = SubSeq(p.sets, 1, i - 1) \o SubSeq(p.sets, i + 1, Len(p.sets))]

\* the last call gave what r is, but for one set more handed to the decoder
SameAs(r) ==
    /\ lastOut.flows = r.flows
    /\ lastOut.exc = r.exc
    /\ templates = r.templates
    /\ lastOut.nsets \in {r.nsets, r.nsets + 1}

\* C2: a data set whose template id is unknown contributes nothing and does not
\* abort the packet: the call returns the records, leaves the store and ends as
\* the same packet without that set does, having handed one set more to the decoder
\* when the walk got that far.
C2_UnknownTemplateSkipped ==
    N > 0 =>
        \A i \in 1..Len(Last.sets) :
            UnknownAt(Last, i, lastPre) =>
                SameAs(parse_packet(Encode(Without(Last, i)), lastPre))

C2_Witness ==
    /\ N > 0
    /\ Last = Ipfix(<<Data(300, "A", <<"X">>), Tmpl(256, "A"), Data(256, "A", <<"Y">>)>>)
    /\ UnknownAt(Last, 1, lastPre)
    /\ lastOut.nsets = 3
    /\ lastOut.flows = <<Expected("A", "Y")>>

\* C3 (as claimed): whatever goes wrong in a later set, the records of the sets
\* decoded before it are in the result and the call returns.
C3_FailureConfinedToSet ==
    (N > 0 /\ Last.ver = 10 /\ Last.cut = 0 /\ Len(Last.sets) >= 2
       /\ TmplThenData([Last EXCEPT !.sets = SubSeq(Last.sets, 1, 2)])) =>
        /\ lastOut.exc = NoExc
        /\ IsPrefix(ExpectedAll(Last.sets[2].layout, Last.sets[2].flows), lastOut.flows)

\* C4 (as claimed): parse_packet returns for every payload.
C4_NeverRaises == lastOut.exc = NoExc

\* packet p leaves template id t defined with layout l / withdrawn / touches it
Defines(p, t, l) ==
    /\ p \in WellFormed /\ l \in Decodable
    /\ \E i \in 1..Len(p.sets) :
          /\ p.sets[i] = Tmpl(t, l)
          /\ \A j \in (i + 1)..Len(p.sets) : ~(p.sets[j].k \in {"tmpl", "wd"} /\ p.sets[j].tid = t)

Withdraws(p, t) ==
    /\ p \in WellFormed
    /\ \E i \in 1..Len(p.sets) :
          /\ p.sets[i] = Wd(t)
          /\ \A j \in (i + 1)..Len(p.sets) : ~(p.sets[j].k = "tmpl" /\ p.sets[j].tid = t)

Touches(p, t) ==
    \E i \in 1..Len(p.sets) : p.sets[i].k \in {"tmpl", "wd", "tmplTrunc"} /\ p.sets[i].tid = t

DataOnly(p, t) ==
    /\ p.ver = 10 /\ p.cut = 0 /\ Len(p.sets) = 1
    /\ p.sets[1].k = "data" /\ p.sets[1].tid = t

\* C5: a template learned from a packet is still in the store after any packets
\* that neither withdraw nor redefine it, so a later packet that carries only data
\* for it decodes.
C5_TemplatePersists ==
    \A t \in Tids : \A i \in 1..(N - 1) :
        (/\ DataOnly(Last, t)
         /\ Defines(hist[i], t, Last.sets[1].layout)
         /\ \A j \in (i + 1)..(N - 1) : ~Touches(hist[j], t)) =>
            /\ lastOut.exc = NoExc
            /\ lastOut.flows = ExpectedAll(Last.sets[1].layout, Last.sets[1].flows)

C5_Witness ==
    /\ N = 3
    /\ hist[1] = Ipfix(<<Tmpl(256, "A")>>)
    /\ hist[2] = PacketD(7, <<>>, <<>>, 0, 0)
    /\ DataOnly(Last, 256)
    /\ Len(lastOut.flows) = 2

\* every set of the packet from position i on is a data set for template id t
DataFrom(p, i, t) ==
    /\ p.ver = 10 /\ p.cut = 0 /\ i <= Len(p.sets)
    /\ \A j \in i..Len(p.sets) : p.sets[j].k = "data" /\ p.sets[j].tid = t

\* C6: once a withdrawal of t has been processed and until t is defined again,
\* t is not in the store and data sets for t yield no record, in later packets
\* and in the rest of the withdrawing packet.
C6_WithdrawnYieldsNothing ==
    \A t \in Tids : \A i \in 1..N :
        (/\ Withdraws(hist[i], t)
         /\ \A j \in (i + 1)..N : ~Touches(hist[j], t)) =>
            /\ t \notin DOMAIN templates["ipfix"]
            /\ (i < N /\ DataFrom(Last, 1, t)) => (lastOut.flows = <<>> /\ lastOut.exc = NoExc)
            /\ (i = N /\ Last.sets[1] = Wd(t) /\ DataFrom(Last, 2, t)) =>
                   (lastOut.flows = <<>> /\ lastOut.exc = NoExc)

C6_Witness ==
    /\ N = 3
    /\ hist[1] = Ipfix(<<Tmpl(256, "A"), Data(256, "A", <<"X">>)>>)
    /\ hist[2] = Ipfix(<<Wd(256)>>)
    /\ DataOnly(Last, 256)
    /\ 256 \notin DOMAIN templates["ipfix"]
    /\ lastOut.flows = <<>>

\* the parser run on a sequence of packets from a store
RECURSIVE Run(_, _, _)
RunStep(ps, r) == Run(r.templates, Tail(ps), Out(r))

Run(tpl, ps, out) ==
    IF ps = <<>> THEN [templates |-> tpl, out |-> out]
    ELSE RunStep(ps, parse_packet(Encode(Head(ps)), tpl))

TemplateOnly(p) ==
    /\ p \in WellFormed /\ p.sets # <<>>
    /\ \A i \in 1..Len(p.sets) : p.sets[i].k = "tmpl"

IsNow(run) == lastOut = run.out /\ templates = run.templates

\* C7: a template definition processed a second time leaves the store as the
\* first time left it, and the packet decoded next gives what it gives when the
\* definition was processed once.
C7_ResentTemplateIdempotent ==
    /\ (N >= 2 /\ hist[N] = hist[N - 1] /\ TemplateOnly(hist[N])) => templates = lastPre
    /\ (N >= 3 /\ hist[N - 1] = hist[N - 2] /\ TemplateOnly(hist[N - 1])) =>
          IsNow(Run(NewTemplates, SubSeq(hist, 1, N - 2) \o <<hist[N]>>, NoOut))

C7_Witness ==
    /\ N = 3
    /\ hist[1] = Ipfix(<<Tmpl(256, "A")>>)
    /\ hist[2] = hist[1]
    /\ DataOnly(Last, 256)
    /\ Len(lastOut.flows) = 2

\* the payload is shorter than the header its version asks for
ShortOfHeader(data) ==
    \/ BLen(data) < 4
    \/ BU16(data, 0) = 10 /\ BLen(data) < IPFIXHeaderSize

Before(p, i) == [p EXCEPT !.sets = SubSeq(p.sets, 1, i - 1)]

\* decoding the last packet did exactly what decoding r's packet does
ExactlyAs(r) ==
    /\ lastOut = Out(r)
    /\ templates = r.templates

\* C20: a set whose set_length is below 4 ends the parsing of an IPFIX packet:
\* the call gives the records and leaves the store that the sets before it
\* give, and hands no later set to the decoder.
C20_ShortSetEndsPacket ==
    (N > 0 /\ Last.ver = 10 /\ Last.cut = 0 /\ Last.pad = 0) =>
        \A i \in 1..Len(Last.sets) :
            Last.sets[i].k = "short" =>
                ExactlyAs(parse_packet(Encode(Before(Last, i)), lastPre))

C20_Witness ==
    /\ N = 1
    /\ Len(Last.sets) = 3
    /\ Last.sets[2].k = "short"
    /\ Last.sets[3].k = "data"
    /\ 256 \in DOMAIN templates["ipfix"]
    /\ lastOut = [flows |-> <<>>, exc |-> NoExc, nsets |-> 1]

\* the flow records of a version 5 payload that are there in full
WholeRecords(data) == (BLen(data) - V5HeaderLength) \div V5DataFlowLength

\* the last packet is a version 5 packet whose header counts more records than
\* its body holds in full, and at least one is there in full
LegacyCutShort ==
    /\ N > 0
    /\ Last.ver = 5
    /\ BLen(Wire[Last]) >= V5HeaderLength + V5DataFlowLength
    /\ WholeRecords(Wire[Last]) < BU16(Wire[Last], 2)

SmallMessage == <<Tmpl(256, "B"), Data(256, "B", <<"Y">>)>>

Oversized ==
    PacketD(10, SmallMessage, <<>>, 0, MAX_PACKET_SIZE + 1 - BLen(Encode(Ipfix(SmallMessage))))

AtCeiling ==
    PacketD(10, SmallMessage, <<>>, 0, MAX_PACKET_SIZE - BLen(Encode(Ipfix(SmallMessage))))

Datagrams ==
    { Ipfix(<<Tmpl(256, "A"), Data(256, "A", <<"X">>)>>),
      Ipfix(<<Tmpl(256, "A"), Data(256, "A", <<"Y", "X">>), Data(256, "A", <<"Z">>)>>),
      Ipfix(<<Wd(256)>>),
      PacketD(7, <<>>, <<>>, 0, 0),
      Oversized,
      AtCeiling }

DgWire == [d \in Datagrams |-> Encode(d)]

OversizeWarning == "Oversized NetFlow packet, skipping"
DbWarning == "NetFlow DB write error"
LoopError == "Exception in callback"

\* (mutant) the ceiling is compared one byte too high
TooLongPastCeiling(data) == BLen(data) > MAX_PACKET_SIZE + 1

\* datagram_received, line 35: len(data) > MAX_PACKET_SIZE
TooLong(data) == BLen(data) > MAX_PACKET_SIZE

\* (mutant) the packet counter is advanced before the length is looked at
DropOversizedCounted(d) ==
    /\ Len(log) < MaxLog
    /\ log' = Append(log, OversizeWarning)
    /\ _packets' = _packets + 1
    /\ UNCHANGED <<templates, lastPre, lastOut, parsed, dg_flows, task, pc, parsing>>

\* datagram_received, lines 35-37: the datagram is logged and dropped
DropOversized(d) ==
    /\ Len(log) < MaxLog
    /\ log' = Append(log, OversizeWarning)
    /\ UNCHANGED <<templates, lastPre, lastOut, parsed, _packets, dg_flows, task, pc,
                   parsing>>

\* datagram_received, lines 39-40: the datagram is counted and parse_packet called
Accept(d) ==
    /\ _packets < MaxPackets
    /\ _packets' = _packets + 1
    /\ parsed' = <<d>>
    /\ parsing' = parsing + 1
    /\ task' = "datagram"
    /\ pc' = "dg_parse"
    /\ UNCHANGED <<templates, lastPre, lastOut, dg_flows, log>>

\* (mutant) the transport delivers a datagram while another callback is running
DatagramReceivedReentrant(d) ==
    /\ ~closed
    /\ rx' = [d |-> <<d>>, n |-> 1 - rx.n]
    /\ IF TooLong(DgWire[d]) THEN DropOversized(d) ELSE Accept(d)
    /\ UNCHANGED <<hist, batch, _lock, _last_flush, _flows, now, ts, batch_copy,
                   inserted, closed, timerDue, timerAlive, submitted, buffered,
                   appended>>
    /\ UNCHANGED xvars

\* datagram_received(data, addr), lines 34-40, called by the event loop when no
\* other callback runs
DatagramReceived(d) ==
    /\ task = "idle"
    /\ ~closed
    /\ rx' = [d |-> <<d>>, n |-> 1 - rx.n]
    /\ IF TooLong(DgWire[d]) THEN DropOversized(d) ELSE Accept(d)
    /\ UNCHANGED <<hist, batch, _lock, _last_flush, _flows, now, ts, batch_copy,
                   inserted, closed, timerDue, timerAlive, submitted, buffered,
                   appended>>
    /\ UNCHANGED xvars

\* a record written to the log; the log keeps its first MaxLog records
Logged(m) == IF Len(log) < MaxLog THEN Append(log, m) ELSE log

\* datagram_received, lines 40-41: parse_packet ends; an exception it raises ends
\* the callback in the event loop's handler
AfterParse(r) ==
    /\ Called(r)
    /\ IF r.exc # NoExc
       THEN /\ log' = Logged(LoopError)
            /\ task' = "idle"
            /\ pc' = "-"
            /\ UNCHANGED dg_flows
       ELSE /\ dg_flows' = r.flows
            /\ pc' = IF r.flows # <<>> THEN "dg_lock" ELSE "dg_time"
            /\ UNCHANGED <<task, log>>

\* (mutant) parse_packet is called inside the with block: the lock is taken first
DgParseUnderLock ==
    /\ task = "datagram" /\ pc = "dg_parse"
    /\ _lock = "free"
    /\ _lock' = task
    /\ parsing' = parsing - 1
    /\ AfterParse(parse_packet(DgWire[parsed[1]], templates))
    /\ UNCHANGED <<hist, batch, _last_flush, _packets, _flows, now, ts, batch_copy,
                   inserted, closed, timerDue, timerAlive, rx, parsed, submitted, buffered,
                   appended>>
    /\ UNCHANGED xvars

\* datagram_received, line 40: flows = parse_packet(data, self.templates)
DgParse ==
    /\ task = "datagram" /\ pc = "dg_parse"
    /\ parsing' = parsing - 1
    /\ AfterParse(parse_packet(DgWire[parsed[1]], templates))
    /\ UNCHANGED <<hist, batch, _lock, _last_flush, _packets, _flows, now, ts, batch_copy,
                   inserted, closed, timerDue, timerAlive, rx, parsed, submitted, buffered,
                   appended>>
    /\ UNCHANGED xvars

\* line 42: with self._lock
DgAcquire ==
    /\ task = "datagram" /\ pc = "dg_lock"
    /\ _lock = "free"
    /\ _lock' = task
    /\ pc' = "dg_extend"
    /\ UNCHANGED <<templates, hist, lastPre, lastOut, batch, _last_flush, _packets, _flows,
                   now, task, dg_flows, ts, batch_copy, inserted, closed, timerDue,
                   timerAlive, log, rx, parsed,
                   parsing, submitted, buffered,
                   appended>>
    /\ UNCHANGED xvars

\* (mutant) the decoded records are put in front of the batch
DgExtendFront ==
    /\ task = "datagram" /\ pc = "dg_extend"
    /\ batch' = dg_flows \o batch
    /\ appended' = appended \o dg_flows
    /\ _flows' = _flows + Len(dg_flows)
    /\ _lock' = "free"
    /\ pc' = "dg_time"
    /\ UNCHANGED <<templates, hist, lastPre, lastOut, _last_flush, _packets,
                   now, task, dg_flows, ts, batch_copy, inserted, closed, timerDue,
                   timerAlive, log, rx, parsed,
                   parsing, submitted, buffered>>
    /\ UNCHANGED xvars

\* lines 43-44, and the lock released at the end of the with block
DgExtend ==
    /\ task = "datagram" /\ pc = "dg_extend"
    /\ batch' = batch \o dg_flows
    /\ appended' = appended \o dg_flows
    /\ _flows' = _flows + Len(dg_flows)
    /\ _lock' = "free"
    /\ pc' = "dg_time"
    /\ UNCHANGED <<templates, hist, lastPre, lastOut, _last_flush, _packets,
                   now, task, dg_flows, ts, batch_copy, inserted, closed, timerDue,
                   timerAlive, log, rx, parsed,
                   parsing, submitted, buffered>>
    /\ UNCHANGED xvars

\* lines 47-49: now = time.time(); the flush when the interval has passed
DgTime ==
    /\ task = "datagram" /\ pc = "dg_time"
    /\ IF now - _last_flush >= batch_interval
       THEN ts' = now /\ pc' = "fl_lock" /\ task' = task
       ELSE ts' = ts /\ pc' = "-" /\ task' = "idle"
    /\ UNCHANGED <<templates, hist, lastPre, lastOut, batch, _lock, _last_flush, _packets,
                   _flows, now, dg_flows, batch_copy, inserted, closed, timerDue,
                   timerAlive, log, rx, parsed,
                   parsing, submitted, buffered,
                   appended>>
    /\ UNCHANGED xvars

\* _flush returns to its caller: datagram_received and connection_lost end,
\* periodic_flush goes back to sleep for batch_interval
Returned ==
    /\ task' = "idle"
    /\ pc' = "-"
    /\ timerDue' = IF task = "periodic" THEN now + batch_interval ELSE timerDue
    /\ timerAlive' = timerAlive

\* an exception leaves _flush: the callback ends in the event loop's handler, and
\* the periodic_flush task ends with it
Raised ==
    /\ task' = "idle"
    /\ pc' = "-"
    /\ timerDue' = timerDue
    /\ timerAlive' = IF task = "periodic" THEN FALSE ELSE timerAlive

\* _flush, line 52: with self._lock
FlushAcquire ==
    /\ task # "idle" /\ pc = "fl_lock"
    /\ _lock = "free"
    /\ _lock' = task
    /\ pc' = "fl_swap"
    /\ UNCHANGED <<templates, hist, lastPre, lastOut, batch, _last_flush, _packets, _flows,
                   now, task, dg_flows, ts, batch_copy, inserted, closed, timerDue,
                   timerAlive, log, rx, parsed,
                   parsing, submitted, buffered,
                   appended>>
    /\ UNCHANGED xvars

\* (mutant) the with block is not left before the storage write
FlushSwapKeepsLock ==
    /\ task # "idle" /\ pc = "fl_swap"
    /\ batch # <<>>
    /\ batch_copy' = batch /\ batch' = <<>>
    /\ pc' = "fl_stamp"
    /\ UNCHANGED <<templates, hist, lastPre, lastOut, _lock, _last_flush, _packets, _flows,
                   now, task, dg_flows, ts, inserted, closed, timerDue, timerAlive, log, rx,
                   parsed,
                   parsing, submitted, buffered,
                   appended>>
    /\ UNCHANGED xvars

\* (mutant) the batch is copied but not cleared
FlushSwapNoClear ==
    /\ task # "idle" /\ pc = "fl_swap"
    /\ _lock' = "free"
    /\ IF batch = <<>>
       THEN /\ Returned
            /\ UNCHANGED <<batch, batch_copy>>
       ELSE /\ batch_copy' = batch
            /\ batch' = batch
            /\ pc' = "fl_stamp"
            /\ UNCHANGED <<task, timerDue, timerAlive>>
    /\ UNCHANGED <<templates, hist, lastPre, lastOut, _last_flush, _packets, _flows,
                   now, dg_flows, ts, inserted, closed, log, rx, parsed,
                   parsing, submitted, buffered, appended>>
    /\ UNCHANGED xvars

\* (mutant) _last_flush is set before the batch is looked at
FlushSwapStampsFirst ==
    /\ task # "idle" /\ pc = "fl_swap"
    /\ _lock' = "free"
    /\ _last_flush' = ts
    /\ IF batch = <<>>
       THEN /\ Returned
            /\ UNCHANGED <<batch, batch_copy>>
       ELSE /\ batch_copy' = batch
            /\ batch' = <<>>
            /\ pc' = "fl_stamp"
            /\ UNCHANGED <<task, timerDue, timerAlive>>
    /\ UNCHANGED <<templates, hist, lastPre, lastOut, _packets, _flows,
                   now, dg_flows, ts, inserted, closed, log, rx, parsed,
                   parsing, submitted, buffered, appended>>
    /\ UNCHANGED xvars

\* _flush, lines 53-56: an empty batch returns; otherwise the batch is copied and
\* cleared; either way the with block is left and the lock released
FlushSwap ==
    /\ task # "idle" /\ pc = "fl_swap"
    /\ _lock' = "free"
    /\ IF batch = <<>>
       THEN /\ Returned
            /\ UNCHANGED <<batch, batch_copy>>
       ELSE /\ batch_copy' = batch
            /\ batch' = <<>>
            /\ pc' = "fl_stamp"
            /\ UNCHANGED <<task, timerDue, timerAlive>>
    /\ UNCHANGED <<templates, hist, lastPre, lastOut, _last_flush, _packets, _flows,
                   now, dg_flows, ts, inserted, closed, log, rx, parsed,
                   parsing, submitted, buffered,
                   appended>>
    /\ UNCHANGED xvars

\* _flush, line 57: self._last_flush = ts
FlushStamp ==
    /\ task # "idle" /\ pc = "fl_stamp"
    /\ _last_flush' = ts
    /\ pc' = "fl_insert"
    /\ UNCHANGED <<templates, hist, lastPre, lastOut, batch, _lock, _packets, _flows,
                   now, task, dg_flows, ts, batch_copy, inserted, closed, timerDue,
                   timerAlive, log, rx, parsed,
                   parsing, submitted, buffered,
                   appended>>
    /\ UNCHANGED xvars

\* _flush, line 59: insert_netflow_batch is entered
InsertBegin ==
    /\ task # "idle" /\ pc = "fl_insert"
    /\ pc' = "fl_inserting"
    /\ submitted' = Append(submitted, batch_copy)
    /\ UNCHANGED <<templates, hist, lastPre, lastOut, batch, _lock, _last_flush, _packets,
                   _flows, now, task, dg_flows, ts, batch_copy, inserted, closed, timerDue,
                   timerAlive, log, rx, parsed, parsing, buffered,
                   appended>>
    /\ UNCHANGED xvars

\* (mutant) a failed write puts its rows back in front of the batch
InsertEndRequeue(outcome) ==
    /\ task # "idle" /\ pc = "fl_inserting"
    /\ CASE outcome = "ok" ->
              /\ inserted' = Append(inserted, <<ts, batch_copy>>)
              /\ log' = log
              /\ batch' = batch
              /\ Returned
         [] outcome = "OperationalError" ->
              /\ Len(log) < MaxLog
              /\ inserted' = inserted
              /\ log' = Append(log, DbWarning)
              /\ batch' = batch_copy \o batch
              /\ Returned
         [] OTHER ->
              /\ Len(log) < MaxLog
              /\ inserted' = inserted
              /\ log' = Append(log, LoopError)
              /\ batch' = batch
              /\ Raised
    /\ UNCHANGED <<templates, hist, lastPre, lastOut, _lock, _last_flush, _packets,
                   _flows, now, dg_flows, ts, batch_copy, closed, rx, parsed,
                   parsing, submitted, buffered,
                   appended>>
    /\ UNCHANGED xvars

\* _flush, lines 59-61: the write commits, or fails with sqlite3.OperationalError
\* (logged), or with another exception (not caught)
InsertEnd(outcome) ==
    /\ task # "idle" /\ pc = "fl_inserting"
    /\ CASE outcome = "ok" ->
              /\ inserted' = Append(inserted, <<ts, batch_copy>>)
              /\ log' = log
              /\ Returned
         [] outcome = "OperationalError" ->
              /\ Len(log) < MaxLog
              /\ inserted' = inserted
              /\ log' = Append(log, DbWarning)
              /\ Returned
         [] OTHER ->
              /\ Len(log) < MaxLog
              /\ inserted' = inserted
              /\ log' = Append(log, LoopError)
              /\ Raised
    /\ UNCHANGED <<templates, hist, lastPre, lastOut, batch, _lock, _last_flush, _packets,
                   _flows, now, dg_flows, ts, batch_copy, closed, rx, parsed,
                   parsing, submitted, buffered,
                   appended>>
    /\ UNCHANGED xvars

\* periodic_flush, lines 80-82: the sleep has ended, protocol._flush(time.time())
PeriodicFlush ==
    /\ task = "idle"
    /\ timerAlive
    /\ now >= timerDue
    /\ task' = "periodic"
    /\ ts' = now
    /\ pc' = "fl_lock"
    /\ UNCHANGED <<templates, hist, lastPre, lastOut, batch, _lock, _last_flush, _packets,
                   _flows, now, dg_flows, batch_copy, inserted, closed, timerDue,
                   timerAlive, log, rx, parsed,
                   parsing, submitted, buffered,
                   appended>>
    /\ UNCHANGED xvars

\* (mutant) connection_lost returns without flushing
ConnectionLostNoFlush ==
    /\ task = "idle"
    /\ ~closed
    /\ closed' = TRUE
    /\ buffered' = batch
    /\ UNCHANGED <<templates, hist, lastPre, lastOut, batch, _lock, _last_flush, _packets,
                   _flows, now, task, pc, dg_flows, ts, batch_copy, inserted, timerDue,
                   timerAlive, log, rx, parsed, parsing, submitted,
                   appended>>
    /\ UNCHANGED xvars

\* app.py line 126, nf_transport.close(): no more datagrams, and the loop calls
\* connection_lost, line 64: self._flush(time.time())
ConnectionLost ==
    /\ task = "idle"
    /\ ~closed
    /\ closed' = TRUE
    /\ task' = "shutdown"
    /\ ts' = now
    /\ pc' = "fl_lock"
    /\ buffered' = batch
    /\ UNCHANGED <<templates, hist, lastPre, lastOut, batch, _lock, _last_flush, _packets,
                   _flows, now, dg_flows, batch_copy, inserted, timerDue, timerAlive, log,
                   rx, parsed, parsing, submitted,
                   appended>>
    /\ UNCHANGED xvars

\* Time passes, half an interval at a time.  The clock is read at lines 47, 64
\* and 82 and when periodic_flush starts its next sleep; a tick anywhere else
\* gives the same readings as a tick just before the next of these, so ticks are
\* taken only there.
TickStep == batch_interval \div 2

Tick ==
    /\ task = "idle" \/ pc \in {"dg_time", "fl_swap", "fl_inserting"}
    /\ now + TickStep <= MaxTicks * TickStep
    /\ now' = now + TickStep
    /\ UNCHANGED <<templates, hist, lastPre, lastOut, batch, _lock, _last_flush, _packets,
                   _flows, task, pc, dg_flows, ts, batch_copy, inserted, closed, timerDue,
                   timerAlive, log, rx, parsed,
                   parsing, submitted, buffered,
                   appended>>
    /\ UNCHANGED xvars

Init ==
    /\ templates = NewTemplates
    /\ hist = <<>>
    /\ lastPre = NewTemplates
    /\ lastOut = NoOut
    /\ InitListener
    /\ InitOthers

Next ==
    \/ \E d \in Datagrams : DatagramReceived(d)
    \/ DgParse
    \/ DgAcquire
    \/ DgExtend
    \/ DgTime
    \/ FlushAcquire
    \/ FlushSwap
    \/ FlushStamp
    \/ InsertBegin
    \/ \E outcome \in {"ok", "OperationalError", "Error"} : InsertEnd(outcome)
    \/ PeriodicFlush
    \/ ConnectionLost
    \/ Tick

Spec == Init /\ [][Next]_vars

\* The event loop runs a callback it has started to its end, wakes periodic_flush
\* when its sleep has ended, and time passes.  Nothing obliges a datagram to
\* arrive or the transport to be closed.  Run1 is the next step of the callback
\* that is running, after its parse_packet call; that call ends too: DgParse is
\* enabled exactly when pc = "dg_parse" and leaves it, so its weak fairness is
\* that pc is again and again not "dg_parse".
Run1 ==
    \/ DgAcquire
    \/ DgExtend
    \/ DgTime
    \/ FlushAcquire
    \/ FlushSwap
    \/ FlushStamp
    \/ InsertBegin
    \/ \E outcome \in {"ok", "OperationalError", "Error"} : InsertEnd(outcome)

Fairness ==
    /\ []<>(pc # "dg_parse")
    /\ WF_vars(Run1)
    /\ WF_vars(PeriodicFlush)
    /\ WF_vars(Tick)

SpecLive == Spec /\ Fairness

\* ------------------------------------------------ claims about the listener
\* datagram d is longer than the ceiling of 65535 bytes
Longer(d) == BLen(Encode(d)) > MAX_PACKET_SIZE

\* this step is datagram_received called with a datagram longer than the ceiling
OversizedReceived == rx' # rx /\ Longer(rx'.d[1])

\* C8: a datagram longer than 65535 bytes passed to datagram_received is never
\* given to parse_packet, and the call leaves the Template Store and the batch
\* unchanged (and starts no further step of the callback).
C8_OversizedNeverParsed ==
    /\ [](parsed # <<>> => ~Longer(parsed[1]))
    /\ [][OversizedReceived =>
              /\ UNCHANGED <<templates, batch, parsed, lastOut, lastPre, dg_flows>>
              /\ task' = "idle"]_vars

C8_Witness ==
    /\ rx.d = <<Oversized>>
    /\ log = <<OversizeWarning>>
    /\ batch # <<>>
    /\ 256 \in DOMAIN templates["ipfix"]
    /\ parsed # <<>> /\ parsed # rx.d

\* C9 as stated: the listener keeps a count that goes up by one for every
\* oversized datagram it drops.  _packets and _flows are its only counters.
C9_DroppedIsCounted ==
    [][OversizedReceived => (_packets' = _packets + 1 \/ _flows' = _flows + 1)]_vars

\* C9 as amended: every oversized datagram that the listener drops is logged with
\* one warning, and none of the listener's counters moves.
C9_DroppedIsLoggedNotCounted ==
    [][OversizedReceived =>
          /\ log' = Append(log, OversizeWarning)
          /\ UNCHANGED <<_packets, _flows>>]_vars

C9_Witness ==
    /\ rx.d = <<Oversized>>
    /\ log = <<OversizeWarning>>
    /\ _packets = 1
    /\ _flows = 1
    /\ task = "idle"

\* C10: the lock is not held while insert_netflow_batch runs; a flush copies and
\* clears the batch in a step that starts with the lock held by the flushing
\* callback and ends with it released, and every write to storage happens in a
\* step that starts with the lock free and writes the copy.
C10_LockFreeDuringInsert ==
    /\ [](pc = "fl_inserting" => _lock = "free")
    /\ [][(batch # <<>> /\ batch' = <<>>) =>
              /\ _lock = task /\ task # "idle"
              /\ batch_copy' = batch
              /\ _lock' = "free"]_vars
    /\ [][inserted' # inserted =>
              /\ _lock = "free"
              /\ inserted' = Append(inserted, <<ts, batch_copy>>)]_vars

C10_Witness ==
    /\ pc = "fl_inserting"
    /\ _lock = "free"
    /\ batch_copy # <<>>
    /\ batch = <<>>

\* the model's bounds leave room for one more datagram to be taken
RoomForDatagram == _packets < MaxPackets /\ Len(log) < MaxLog

\* C11: while the storage write of a flush is in progress, a newly arriving
\* datagram can still be received (datagram_received can be called).
C11_ReceptionNotBlockedByWrite ==
    (pc = "fl_inserting" /\ ~closed /\ RoomForDatagram) =>
        ENABLED (\E d \in Datagrams : DatagramReceived(d))

\* C12: at most one parse_packet call on the listener's Template Store is in
\* progress at any time.
C12_OneParseAtATime == parsing <= 1

C12_Witness ==
    /\ parsing = 1
    /\ pc = "dg_parse"
    /\ _packets = 2
    /\ timerAlive /\ now >= timerDue

\* C13 as stated: every step that changes the Template Store while a datagram is
\* decoded is taken with the listener's lock held.
C13_StoreMutatedUnderLock == [][templates' # templates => _lock # "free"]_vars

\* C13 as amended: every change of the Template Store happens in the parse_packet
\* call of the datagram_received callback that received the datagram, before that
\* callback takes the lock: the lock is free when the call starts and when it ends.
C13_StoreMutatedBeforeLock ==
    [][templates' # templates =>
          /\ task = "datagram" /\ pc = "dg_parse"
          /\ _lock = "free" /\ _lock' = "free"]_vars

C13_Witness ==
    /\ task = "datagram"
    /\ pc = "dg_lock"
    /\ templates # lastPre
    /\ _lock = "free"
    /\ batch # <<>>

\* C14: once the connection_lost callback of a shutdown has ended, the batch is
\* empty and the records that were buffered when it was called have been handed
\* to insert_netflow_batch, in one call and in their order.
C14_ShutdownFlushesBuffered ==
    (closed /\ task = "idle") =>
        /\ batch = <<>>
        /\ buffered # <<>> => \E i \in 1..Len(submitted) : submitted[i] = buffered

C14_Witness ==
    /\ closed
    /\ task = "idle"
    /\ buffered # <<>>
    /\ Len(submitted) = 2
    /\ submitted[2] = buffered
    /\ batch = <<>>

\* C15: after the transport has been closed, the periodic_flush task calls _flush
\* no more.
C15_NoPeriodicFlushAfterClose ==
    [][closed => ~(task = "idle" /\ task' = "periodic")]_vars

\* the number of rows in a list of row lists
RECURSIVE Rows(_)
Rows(ss) == IF ss = <<>> THEN 0 ELSE Len(Head(ss)) + Rows(Tail(ss))

\* the rows a flush has taken out of the batch and not yet handed to storage
InFlight == IF pc \in {"fl_stamp", "fl_insert"} THEN Len(batch_copy) ELSE 0

\* this step is a storage write ending in failure
WriteFails == pc = "fl_inserting" /\ pc' # pc /\ inserted' = inserted

\* C16: when the storage write of a flush fails, the batch is left as the swap
\* made it (empty, but for records decoded since) and the flush ends there; and
\* no record is handed to storage twice: the records handed to storage, those
\* taken by a flush under way and those in the batch are, together, exactly the
\* records appended so far.
C16_FailedWriteNotRetried ==
    /\ [][WriteFails => (batch' = batch /\ batch = <<>> /\ task' = "idle")]_vars
    /\ [](Rows(submitted) + InFlight + Len(batch) = _flows)

C16_Witness ==
    /\ log = <<DbWarning>>
    /\ inserted = <<>>
    /\ Len(submitted) = 1
    /\ Len(batch) = 1
    /\ _flows = 2
    /\ task = "idle"

\* C17: a storage write failure never stops the listener: the periodic_flush task
\* has not ended, and when no callback runs a datagram can be received.
C17_ListenerSurvivesWriteFailure ==
    /\ timerAlive
    /\ (task = "idle" /\ ~closed /\ RoomForDatagram) =>
           ENABLED (\E d \in Datagrams : DatagramReceived(d))

\* the last instant the model's clock reaches
Horizon == MaxTicks * TickStep

\* C18: every record appended to the batch is eventually removed from it by a
\* flush.  The records looked at are those in the batch at least one interval
\* before the clock's last instant, so that the timer's next firing is within it.
C18_BatchEventuallyFlushed ==
    (batch # <<>> /\ now + batch_interval <= Horizon) ~> (batch = <<>>)


\* ------------------------------------------------- extract_flow_fields alone
\* the parser and the listener before any call, for the runs of the other
\* components
InitCollector ==
    /\ templates = NewTemplates
    /\ hist = <<>>
    /\ lastPre = NewTemplates
    /\ lastOut = NoOut
    /\ InitListener

\* The records handed to extract_flow_fields.  Each normalized field has a modern
\* identifier and a legacy alias; the two IPv6 addresses have one name only.
NormalizedKeys == {"src_ip", "dst_ip", "src_port", "dst_port", "protocol", "bytes", "packets"}
AddressKeys == {"src_ip", "dst_ip"}
Modern == [src_ip |-> "sourceIPv4Address", dst_ip |-> "destinationIPv4Address",
           src_port |-> "sourceTransportPort", dst_port |-> "destinationTransportPort",
           protocol |-> "protocolIdentifier", bytes |-> "octetDeltaCount",
           packets |-> "packetDeltaCount"]
Alias == [src_ip |-> "IPV4_SRC_ADDR", dst_ip |-> "IPV4_DST_ADDR",
          src_port |-> "L4_SRC_PORT", dst_port |-> "L4_DST_PORT",
          protocol |-> "PROTOCOL", bytes |-> "IN_BYTES", packets |-> "IN_PKTS"]
IPv6Name == [src_ip |-> "sourceIPv6Address", dst_ip |-> "destinationIPv6Address"]

\* a value for every field name, the modern and the legacy one of a field differing
Sample ==
    [sourceIPv4Address |-> <<192, 168, 1, 10>>, IPV4_SRC_ADDR |-> <<10, 0, 0, 5>>,
     destinationIPv4Address |-> <<8, 8, 8, 8>>, IPV4_DST_ADDR |-> <<1, 1, 1, 1>>,
     sourceIPv6Address |-> <<32, 1, 13, 184, 0, 0, 0, 0, 0, 0, 0, 0, 0, 0, 0, 1>>,
     destinationIPv6Address |-> <<254, 128, 0, 0, 0, 0, 0, 0, 0, 0, 0, 0, 0, 0, 0, 2>>,
     sourceTransportPort |-> <<212, 49>>, L4_SRC_PORT |-> <<48, 57>>,
     destinationTransportPort |-> <<1, 187>>, L4_DST_PORT |-> <<80>>,
     protocolIdentifier |-> <<6>>, PROTOCOL |-> <<17>>,
     octetDeltaCount |-> <<5, 220>>, IN_BYTES |-> <<1, 244>>,
     packetDeltaCount |-> <<10>>, IN_PKTS |-> <<3>>]

\* which of a field's two names a record carries; "zero": both, the modern one 0
Presence == {"none", "modern", "alias", "both", "zero"}
Versions == {"none", "4", "6"}

HasModern(how) == how \in {"modern", "both", "zero"}
HasAlias(how) == how \in {"alias", "both", "zero"}

FlowNames(version, addresses, six, numbers) ==
    (IF version = "none" THEN {} ELSE {"ipVersion"})
    \cup {Modern[k] : k \in {f \in NormalizedKeys :
                               HasModern(IF f \in AddressKeys THEN addresses ELSE numbers)}}
    \cup {Alias[k] : k \in {f \in NormalizedKeys :
                              HasAlias(IF f \in AddressKeys THEN addresses ELSE numbers)}}
    \cup (IF six THEN {IPv6Name[k] : k \in AddressKeys} ELSE {})

FlowValue(name, version, addresses, numbers) ==
    IF name = "ipVersion" THEN (IF version = "6" THEN <<6>> ELSE <<4>>)
    ELSE IF \E f \in NormalizedKeys :
               /\ name = Modern[f]
               /\ (IF f \in AddressKeys THEN addresses ELSE numbers) = "zero"
         THEN <<>>
    ELSE Sample[name]

FlowData(version, addresses, six, numbers) ==
    [name \in FlowNames(version, addresses, six, numbers) |->
        FlowValue(name, version, addresses, numbers)]

FlowRecords ==
    {FlowData(version, addresses, six, numbers) :
        version \in Versions, addresses \in Presence, six \in BOOLEAN, numbers \in Presence}

InitExtract ==
    /\ InitCollector
    /\ IdleClient
    /\ IdlePoller
    /\ IdleDb
    /\ IdleHealth
    /\ IdleAuth
    /\ IdleAlerts
    /\ IdleWs
    /\ flow_data \in FlowRecords
    /\ flow_fields = <<>>

\* one call extract_flow_fields(flow)
Extract ==
    /\ flow_fields = <<>>
    /\ flow_fields' = <<extract_flow_fields(flow_data)>>
    /\ UNCHANGED flow_data
    /\ UNCHANGED NotExtract

NextExtract == Extract

SpecExtract == InitExtract /\ [][NextExtract]_vars

Extracted == flow_fields # <<>>
Normalized == flow_fields[1]
Has(name) == name \in DOMAIN flow_data
IsV6 == Has("ipVersion") /\ flow_data["ipVersion"] = <<6>>

\* the text of an address: the n octets of the integer v
AsAddress(v, n) == [i \in 1..n |-> IF i <= n - Len(v) THEN 0 ELSE v[i - (n - Len(v))]]
\* the number a decoded integer stands for
AsNumber(v) == ToInt(v)

\* the names a field is read from in this record: none for an IPv6 address alias
NamesOf(f) ==
    IF f \in AddressKeys /\ IsV6 THEN <<IPv6Name[f]>> ELSE <<Modern[f], Alias[f]>>
Absent(f) == \A i \in 1..Len(NamesOf(f)) : ~Has(NamesOf(f)[i])
ZeroOf(f) ==
    IF f \notin AddressKeys THEN 0
    ELSE IF IsV6 THEN [i \in 1..16 |-> 0] ELSE <<0, 0, 0, 0>>

\* C22: extract_flow_fields returns a dict with exactly the seven normalized keys
\* whatever the record lacks; a missing port, protocol, byte or packet count is 0
\* and a missing address is the all-zeros address of its family.
C22_MissingFieldsDefault ==
    Extracted =>
        /\ DOMAIN Normalized = NormalizedKeys
        /\ \A f \in NormalizedKeys : Absent(f) => Normalized[f] = ZeroOf(f)

C22_Witness ==
    /\ Extracted
    /\ flow_data = EmptyDict
    /\ Normalized["src_ip"] = <<0, 0, 0, 0>>
    /\ Normalized["packets"] = 0


\* the value the first name the record has stands under, 0 when it has neither
FirstOf(first, second) ==
    IF Has(first) THEN flow_data[first] ELSE IF Has(second) THEN flow_data[second] ELSE <<>>

\* C23: every normalized field is the value under the modern identifier when the
\* record has it (even when that value is 0), otherwise the value under the legacy
\* alias, otherwise the default; the addresses of an IPv6 record have no alias.
C23_ModernThenAliasThenDefault ==
    Extracted =>
        \A f \in NormalizedKeys :
            IF f \in AddressKeys
            THEN IsV6 \/ Normalized[f] = AsAddress(FirstOf(Modern[f], Alias[f]), 4)
            ELSE Normalized[f] = AsNumber(FirstOf(Modern[f], Alias[f]))

C23_Witness ==
    /\ Extracted
    /\ Has("octetDeltaCount") /\ Has("IN_BYTES")
    /\ flow_data["octetDeltaCount"] = <<>> /\ flow_data["IN_BYTES"] = <<1, 244>>
    /\ Normalized["bytes"] = 0
    /\ ~Has("sourceIPv4Address") /\ Has("IPV4_SRC_ADDR")
    /\ Normalized["src_ip"] = <<10, 0, 0, 5>>

\* C24: when ipVersion is 6 both addresses are the IPv6 fields' (all zeros when
\* absent) whatever the IPv4 fields hold; otherwise, the flag absent included,
\* both are the IPv4 fields' whatever the IPv6 fields hold.
C24_FamilyByVersionFlag ==
    Extracted =>
        \A f \in AddressKeys :
            Normalized[f] = IF IsV6
                            THEN AsAddress(Get(flow_data, IPv6Name[f], <<>>), 16)
                            ELSE AsAddress(FirstOf(Modern[f], Alias[f]), 4)

C24_Witness ==
    /\ Extracted
    /\ ~Has("ipVersion")
    /\ Has("sourceIPv6Address") /\ Has("destinationIPv6Address")
    /\ Has("sourceIPv4Address")
    /\ Normalized["src_ip"] = <<192, 168, 1, 10>>
    /\ Len(Normalized["dst_ip"]) = 4

C24_WitnessV6 ==
    /\ Extracted
    /\ IsV6
    /\ Has("sourceIPv4Address") /\ ~Has("sourceIPv6Address")
    /\ Normalized["src_ip"] = [i \in 1..16 |-> 0]
    /\ Len(Normalized["dst_ip"]) = 16


\* ------------------------------------------------------- AlertEngine alone
\* the snapshots the poller hands to evaluate
Snapshot(status, latency_ms, health_score, total, online) ==
    [status |-> status, latency_ms |-> latency_ms, health_score |-> health_score,
     total |-> total, online |-> online]

Snapshots ==
    {Snapshot(<<"ok">>, <<15>>, <<100>>, 2, 2),
     Snapshot(<<"down">>, None, <<40>>, 2, 2),
     Snapshot(<<"ok">>, <<150>>, <<100>>, 2, 2),
     Snapshot(<<"ok">>, <<15>>, <<100>>, 3, 1),
     Snapshot(<<"down">>, <<150>>, <<40>>, 3, 1),
     Snapshot(None, None, None, 0, 0)}

\* the engines built: app.py's with the default rules, the tests' with one rule
RuleSets ==
    {DEFAULT_RULES,
     <<AlertRule("wan_status", "ne", "ok", 300)>>,
     <<AlertRule("health_score", "lt", 50, 0), AlertRule("client_signal", "lt", 0, 300)>>}

\* the time between two reads of the clock
Elapsed == {0, 150, 300}

InitAlerts ==
    /\ InitCollector
    /\ IdleClient
    /\ IdlePoller
    /\ IdleDb
    /\ IdleHealth
    /\ IdleAuth
    /\ IdleExtract
    /\ IdleWs
    /\ rules \in RuleSets
    /\ _cooldowns = EmptyDict
    /\ wall = Epoch
    /\ evaluated = <<>>

Evaluated(t, snapshot, r) ==
    /\ wall' = t
    /\ _cooldowns' = r.cooldowns
    /\ evaluated' = Append(evaluated, [now |-> t, snapshot |-> snapshot, fired |-> r.fired])

\* one call evaluate(snapshot), dt after the previous one
Evaluate(snapshot, dt) ==
    /\ Len(evaluated) < MaxEvals
    /\ Evaluated(wall + dt, snapshot, evaluate(rules, snapshot, wall + dt, _cooldowns))
    /\ UNCHANGED rules
    /\ UNCHANGED NotAlerts

NextAlerts == \E snapshot \in Snapshots, dt \in Elapsed : Evaluate(snapshot, dt)

SpecAlerts == InitAlerts /\ [][NextAlerts]_vars

\* rule number k fires in call number j
Fires(k, j) ==
    \E a \in 1..Len(evaluated[j].fired) : evaluated[j].fired[a].rule = rules[k].key
Holds(k, j) == Condition(rules[k], evaluated[j].snapshot)
Due(k, i, j) == evaluated[j].now >= evaluated[i].now + rules[k].cooldown_s

\* C25: a rule that fired in a call at time t fires in no later call before
\* t + cooldown_s, and fires in the first call at or after t + cooldown_s in
\* which its condition holds.
C25_CooldownBetweenFirings ==
    \A k \in 1..Len(rules) : \A i \in 1..Len(evaluated) : \A j \in (i + 1)..Len(evaluated) :
        Fires(k, i) =>
            /\ ~Due(k, i, j) => ~Fires(k, j)
            /\ (/\ Due(k, i, j)
                /\ Holds(k, j)
                /\ \A m \in (i + 1)..(j - 1) : ~(Due(k, i, m) /\ Holds(k, m))) => Fires(k, j)

C25_Witness ==
    /\ Len(evaluated) = 3
    /\ rules = DEFAULT_RULES
    /\ Fires(4, 1) /\ Holds(4, 2) /\ ~Due(4, 1, 2) /\ ~Fires(4, 2)
    /\ Due(4, 1, 3) /\ Fires(4, 3)
    /\ Fires(1, 1) /\ Fires(1, 2)


\* ------------------------------------------------- ConnectionManager alone
InitWs ==
    /\ InitCollector
    /\ IdleClient
    /\ IdlePoller
    /\ IdleDb
    /\ IdleHealth
    /\ IdleAuth
    /\ IdleExtract
    /\ IdleAlerts
    /\ IdleWs

\* connect(ws), from websocket_endpoint when a client arrives
Connect(w) ==
    /\ w \notin accepted
    /\ accepted' = accepted \cup {w}
    /\ _connections' = _connections \cup {w}
    /\ UNCHANGED <<broadcast, messages, trail>>
    /\ UNCHANGED NotWs

\* disconnect(ws), from websocket_endpoint when its receive_text raises
Disconnect(w) ==
    /\ w \in _connections
    /\ _connections' = _connections \ {w}
    /\ trail' = [trail EXCEPT !.left = @ \cup {w}]
    /\ UNCHANGED <<broadcast, messages, accepted>>
    /\ UNCHANGED NotWs

SetMin(S) == CHOOSE x \in S : \A y \in S : x <= y
Elems(q) == {q[i] : i \in 1..Len(q)}
DisconnectErrors == {"WebSocketDisconnect", "RuntimeError", "ConnectionError"}

\* the for statement of line 33 asks the set's iterator for the next WebSocket
Iterate(frame, dead, conns) ==
    IF Cardinality(conns) # frame.used
    THEN [frame EXCEPT !.pc = "raised", !.dead = dead]
    ELSE IF \E w \in conns : w > frame.ws
         THEN [frame EXCEPT !.ws = SetMin({w \in conns : w > frame.ws}), !.dead = dead]
         ELSE [frame EXCEPT !.pc = "returned", !.dead = dead]

\* broadcast(data) up to its first await: line 30-35
BroadcastBegin ==
    /\ broadcast.pc # "send"
    /\ broadcast.data < MaxBroadcasts
    /\ broadcast' = IF _connections = {}
                    THEN [NoFrame EXCEPT !.pc = "returned", !.data = broadcast.data + 1]
                    ELSE [pc |-> "send", data |-> broadcast.data + 1,
                          ws |-> SetMin(_connections), dead |-> <<>>,
                          used |-> Cardinality(_connections)]
    /\ trail' = [NoTrail EXCEPT !.registered = _connections]
    /\ UNCHANGED <<_connections, messages, accepted>>
    /\ UNCHANGED NotWs

Resumed(frame) ==
    /\ broadcast' = frame
    /\ _connections' = IF frame.pc = "returned" THEN _connections \ Elems(frame.dead)
                       ELSE _connections

\* send_json ends, and broadcast runs to its next await or to its end: line 35-39
SendEnd(outcome) ==
    /\ broadcast.pc = "send"
    /\ messages' = IF outcome = "ok"
                   THEN [messages EXCEPT ![broadcast.ws] = Append(@, broadcast.data)]
                   ELSE messages
    /\ trail' = IF outcome = "ok" THEN [trail EXCEPT !.sent = @ \cup {broadcast.ws}]
                ELSE [trail EXCEPT !.failed = @ \cup {broadcast.ws}]
    /\ Resumed(Iterate(broadcast,
                       IF outcome = "ok" THEN broadcast.dead
                       ELSE Append(broadcast.dead, broadcast.ws),
                       _connections))
    /\ UNCHANGED accepted
    /\ UNCHANGED NotWs

NextWs ==
    \/ \E w \in Sockets : Connect(w)
    \/ \E w \in Sockets : Disconnect(w)
    \/ BroadcastBegin
    \/ \E outcome \in {"ok"} \cup DisconnectErrors : SendEnd(outcome)

SpecWs == InitWs /\ [][NextWs]_vars

Times(w) == Cardinality({i \in 1..Len(messages[w]) : messages[w][i] = broadcast.data})
Ended == broadcast.pc \in {"returned", "raised"}

\* C26: when broadcast has returned, every connection whose send succeeded has the
\* message once and is registered unless its own endpoint has disconnected it, and
\* every connection whose send failed is no longer registered; when a send has
\* failed, every connection registered from the beginning to the end of the
\* broadcast has still been sent to.
C26_BroadcastReachesAllAndPrunes ==
    /\ broadcast.pc = "returned" =>
          /\ \A w \in trail.sent : Times(w) = 1 /\ (w \in _connections \/ w \in trail.left)
          /\ \A w \in trail.failed : w \notin _connections
    /\ (Ended /\ trail.failed # {}) =>
          \A w \in trail.registered \ trail.left : w \in trail.sent \cup trail.failed


\* ----------------------------------------------- BasicAuthMiddleware alone
Chars == {"a", "s", ":", "U+00E9"}
Texts == UNION {[1..n -> Chars] : n \in 0..MaxText}
Usernames == {<<>>, <<"a">>}
Passwords == {<<>>, <<"s">>, <<"s", ":">>, <<"U+00E9">>}
Paths == {"/api/health", "/api/overview", "/"}
Headers ==
    {NoHeader, [scheme |-> "Bearer", decodes |-> FALSE, text |-> <<>>],
     [scheme |-> "Basic", decodes |-> FALSE, text |-> <<>>]}
    \cup {[scheme |-> m, decodes |-> TRUE, text |-> t] : m \in {"Basic", "basic"}, t \in Texts}
Requests == {[path |-> path, header |-> header] : path \in Paths, header \in Headers}

InitAuth ==
    /\ InitCollector
    /\ IdleClient
    /\ IdlePoller
    /\ IdleDb
    /\ IdleHealth
    /\ IdleExtract
    /\ IdleAlerts
    /\ IdleWs
    /\ auth_username \in Usernames
    /\ auth_password \in Passwords
    /\ request \in Requests
    /\ response = <<>>

\* one call dispatch(request, call_next)
Dispatch ==
    /\ response = <<>>
    /\ response' = <<dispatch(request, auth_username, auth_password)>>
    /\ UNCHANGED <<auth_username, auth_password, request>>
    /\ UNCHANGED NotAuth

NextAuth == Dispatch

SpecAuth == InitAuth /\ [][NextAuth]_vars

Answered == response # <<>>
Configured == auth_username # <<>> /\ auth_password # <<>>
\* the header is a Basic one whose text is user:password, the user ending at the
\* first colon
Matching ==
    /\ request.header.scheme = "Basic"
    /\ request.header.decodes
    /\ request.header.text = auth_username \o <<":">> \o auth_password
    /\ \A i \in 1..Len(auth_username) : auth_username[i] # ":"

\* C27: with both credentials configured a request to a path other than
\* /api/health is answered 401 unless its Basic header carries the configured
\* user and password; /api/health is always passed on, and so is every request
\* when a credential is empty.
C27_UnauthorizedUnlessMatching ==
    Answered =>
        /\ (Configured /\ request.path # "/api/health" /\ ~Matching) => response[1] = "401"
        /\ request.path = "/api/health" => response[1] = "next"
        /\ ~Configured => response[1] = "next"

C27_Witness ==
    /\ Answered
    /\ auth_username = <<"a">> /\ auth_password = <<"s">>
    /\ request.path = "/api/overview"
    /\ request.header = [scheme |-> "Basic", decodes |-> TRUE, text |-> <<"a", ":", "a">>]
    /\ response[1] = "401"

C27_WitnessPass ==
    /\ Answered
    /\ Configured /\ Matching
    /\ request.path = "/api/overview"
    /\ response[1] = "next"


\* ---------------------------------------------------- _compute_health alone
Wans ==
    {None, <<[status |-> "down", latency_ms |-> None]>>,
     <<[status |-> "unknown", latency_ms |-> <<120>>]>>}
    \cup {<<[status |-> "ok", latency_ms |-> l]>> : l \in {None, <<0>>, <<15>>, <<50>>, <<51>>,
                                                           <<100>>, <<101>>}}
DeviceLists == UNION {[1..n -> {0, 1, 5}] : n \in 0..MaxDevices}

InitHealth ==
    /\ InitCollector
    /\ IdleClient
    /\ IdlePoller
    /\ IdleDb
    /\ IdleExtract
    /\ IdleAlerts
    /\ IdleWs
    /\ IdleAuth
    /\ health_args \in [wan : Wans, devices : DeviceLists, alarms : 0..MaxAlarms]
    /\ health = <<>>

\* one call _compute_health(wan, devices, alarms)
ComputeHealth ==
    /\ health = <<>>
    /\ health' = <<_compute_health(health_args.wan, health_args.devices, health_args.alarms)>>
    /\ UNCHANGED health_args
    /\ UNCHANGED NotHealth

NextHealth == ComputeHealth

SpecHealth == InitHealth /\ [][NextHealth]_vars

Computed == health # <<>>
\* the score of the same state with every device online, and with no alarm
AllOnline == [i \in 1..Len(health_args.devices) |-> 1]
ScoreWithoutOffline == _compute_health(health_args.wan, AllOnline, health_args.alarms).score
ScoreWithoutAlarms == _compute_health(health_args.wan, health_args.devices, 0).score

\* C28: the score is an integer from 0 to 100; offline devices take at most 30
\* points off the score the same state has with every device online, and alarms
\* at most 30 off the score it has with no alarm.
C28_ScoreInRange ==
    Computed =>
        /\ health[1].score \in 0..100
        /\ ScoreWithoutOffline - health[1].score \in 0..30
        /\ ScoreWithoutAlarms - health[1].score \in 0..30

C28_Witness ==
    /\ Computed
    /\ health_args.wan = None
    /\ Len(offline(health_args.devices)) = 3
    /\ health_args.alarms = 7
    /\ health[1].score = 0
    /\ ScoreWithoutOffline = 30


\* ------------------------------------------------------------ Database alone
Sites == {"default", "siteA"}
HalfHour == 1800
\* the ts a caller passes: the time it read when its cycle began
Stamps == {db_time, db_time - 2 * HalfHour}
RowCount == Len(tables["wan_metrics"]) + Len(tables["devices"]) + Len(tables["clients"])
            + Len(tables["netflow"]) + Len(tables["alarms"])

InitDb ==
    /\ InitCollector
    /\ IdleClient
    /\ IdlePoller
    /\ IdleExtract
    /\ IdleAlerts
    /\ IdleWs
    /\ IdleAuth
    /\ IdleHealth
    /\ IdleDb

Call(op, site, arg, db, result) ==
    /\ tables' = db
    /\ db_before' = tables
    /\ last_call' = [op |-> op, site |-> site, at |-> db_time, arg |-> arg, result |-> result]
    /\ UNCHANGED db_time
    /\ UNCHANGED NotDb

InsertWan(t, site) ==
    /\ RowCount < MaxInserts
    /\ Call("insert_wan", site, t, insert_wan(tables, t, "ok", site), <<>>)

InsertDevices(t, devices, site) ==
    /\ RowCount + Len(devices) <= MaxInserts
    /\ Call("insert_devices", site, t, insert_devices(tables, t, devices, site), <<>>)

InsertClients(t, site) ==
    /\ RowCount < MaxInserts
    /\ Call("insert_clients", site, t, insert_clients(tables, t, <<"c1">>, site), <<>>)

InsertNetflowBatch(t, site) ==
    /\ RowCount < MaxInserts
    /\ Call("insert_netflow_batch", site, t,
            insert_netflow_batch(tables, t, <<"f1">>, site), <<>>)

InsertAlarms(t, site) ==
    /\ RowCount < MaxInserts
    /\ Call("insert_alarms", site, t, insert_alarms(tables, t, <<"a1">>, site), <<>>)

GetWanHistory(hours, site) ==
    Call("get_wan_history", site, hours, tables, get_wan_history(tables, db_time, hours, site))
GetLatestWan(site) == Call("get_latest_wan", site, 0, tables, get_latest_wan(tables, site))
GetLatestDevices(site) ==
    Call("get_latest_devices", site, 0, tables, get_latest_devices(tables, site))
GetLatestClients(site) ==
    Call("get_latest_clients", site, 0, tables, get_latest_clients(tables, site))

Cleanup(retention_hours) ==
    Call("cleanup", "", retention_hours, cleanup(tables, db_time, retention_hours), <<>>)

DbTick ==
    /\ db_time + HalfHour <= DbStart + MaxDbTicks * HalfHour
    /\ db_time' = db_time + HalfHour
    /\ UNCHANGED <<tables, db_before, last_call>>
    /\ UNCHANGED NotDb

NextDb ==
    \/ \E t \in Stamps, site \in Sites : InsertWan(t, site)
    \/ \E t \in Stamps, site \in Sites, devices \in {<<"gw">>, <<"gw", "ap">>} :
           InsertDevices(t, devices, site)
    \/ \E t \in Stamps, site \in Sites : InsertClients(t, site)
    \/ \E t \in Stamps, site \in Sites : InsertNetflowBatch(t, site)
    \/ \E t \in Stamps, site \in Sites : InsertAlarms(t, site)
    \/ \E site \in Sites : GetWanHistory(1, site)
    \/ \E site \in Sites : GetLatestWan(site)
    \/ \E site \in Sites : GetLatestDevices(site)
    \/ \E site \in Sites : GetLatestClients(site)
    \/ \E retention_hours \in {1, 2} : Cleanup(retention_hours)
    \/ DbTick

SpecDb == InitDb /\ [][NextDb]_vars

\* the rows of a table, as a bag: how many times each row occurs
Occurrences(rows, r) == Cardinality({i \in 1..Len(rows) : rows[i] = r})
Older(r) == r.ts < last_call.at - last_call.arg * 3600

\* C29: cleanup(retention_hours) leaves in every table exactly the rows whose ts is
\* not older than the time of the call minus the retention, of whatever site, in
\* their order and unchanged.
C29_CleanupRemovesExactlyOlder ==
    last_call.op = "cleanup" =>
        \A table \in _VALID_TABLES :
            /\ \A i \in 1..Len(tables[table]) : ~Older(tables[table][i])
            /\ \A i \in 1..Len(db_before[table]) :
                  ~Older(db_before[table][i]) =>
                      Occurrences(tables[table], db_before[table][i])
                          = Occurrences(db_before[table], db_before[table][i])
            /\ Len(tables[table]) = Cardinality({i \in 1..Len(db_before[table]) :
                                                     ~Older(db_before[table][i])})

C29_Witness ==
    /\ last_call.op = "cleanup"
    /\ \E table \in _VALID_TABLES :
          /\ Len(db_before[table]) = 2
          /\ Older(db_before[table][1])
          /\ db_before[table][2].ts = last_call.at - last_call.arg * 3600
          /\ db_before[table][1].site # db_before[table][2].site
          /\ tables[table] = <<db_before[table][2]>>


ReadMethods == {"get_wan_history", "get_latest_wan", "get_latest_devices", "get_latest_clients"}
InsertMethods == {"insert_wan", "insert_devices", "insert_clients", "insert_netflow_batch",
                  "insert_alarms"}
TableRead(op) == IF op \in {"get_wan_history", "get_latest_wan"} THEN "wan_metrics"
                 ELSE IF op = "get_latest_devices" THEN "devices" ELSE "clients"
\* what the four read methods return for a site on a database, at the present time
Reads(db, site) ==
    <<get_wan_history(db, db_time, 1, site), get_latest_wan(db, site),
      get_latest_devices(db, site), get_latest_clients(db, site)>>

\* C30: a read for site S returns only rows of its table that were inserted with
\* site S, and an insert for another site leaves what every read for S returns
\* as it was.
C30_ReadsIsolatedBySite ==
    /\ last_call.op \in ReadMethods =>
          \A i \in 1..Len(last_call.result) :
              /\ last_call.result[i].site = last_call.site
              /\ Occurrences(tables[TableRead(last_call.op)], last_call.result[i]) > 0
    /\ last_call.op \in InsertMethods =>
          \A site \in Sites \ {last_call.site} : Reads(tables, site) = Reads(db_before, site)

C30_Witness ==
    /\ last_call.op = "insert_devices"
    /\ last_call.site = "siteA"
    /\ Len(get_latest_devices(db_before, "default")) = 1
    /\ get_latest_devices(db_before, "default")[1].ts < last_call.arg
    /\ get_latest_devices(tables, "default") = get_latest_devices(db_before, "default")
    /\ Len(get_latest_devices(tables, "siteA")) = 1

C30_WitnessRead ==
    /\ last_call.op = "get_latest_wan"
    /\ last_call.site = "default"
    /\ Len(tables["wan_metrics"]) = 2
    /\ tables["wan_metrics"][2].site = "siteA"
    /\ tables["wan_metrics"][2].ts > tables["wan_metrics"][1].ts
    /\ last_call.result = <<tables["wan_metrics"][1]>>


\* ------------------------------------------------------- the IPFIX set walk
\* the walk _parse_ipfix makes over a payload of at least a header
WalkOf(data, tpl) ==
    SetWalk(data, BU16(data, 2), IPFIXHeaderSize, SetDefault(tpl)["ipfix"], <<>>, <<>>)

WalkBounded(data, walk) ==
    /\ walk.nsets = lastOut.nsets
    /\ \A i \in 1..Len(walk.starts) : walk.starts[i] < Min(BU16(data, 2), BLen(data))
    /\ \A i \in 1..(Len(walk.starts) - 1) : walk.starts[i + 1] >= walk.starts[i] + 4
    /\ 4 * walk.nsets <= BLen(data)

\* C31: the set walk ends: each set handed to the decoder starts at least 4 bytes
\* after the one before, so they are at most len(data)/4, and none starts at or
\* beyond min(header.length, len(data)).
C31_SetWalkBounded ==
    (N > 0 /\ BLen(Wire[Last]) >= IPFIXHeaderSize /\ BU16(Wire[Last], 0) = 10) =>
        WalkBounded(Wire[Last], WalkOf(Wire[Last], lastPre))

C31_Witness ==
    /\ N = 1
    /\ Len(Last.sets) = 3
    /\ Last.sets[2] = EndOfMessage
    /\ BU16(Wire[Last], 2) < BLen(Wire[Last])
    /\ BU16(Wire[Last], BU16(Wire[Last], 2) + 2) >= 4
    /\ lastOut = [flows |-> <<>>, exc |-> NoExc, nsets |-> 1]
    /\ 256 \in DOMAIN templates["ipfix"]


\* ------------------------------------------- the batch and the flushes' copies
\* the copy a flush has taken and not yet handed to insert_netflow_batch
Taken == IF pc \in {"fl_stamp", "fl_insert"} THEN batch_copy ELSE <<>>

\* how many times record r is in the list s
CountIn(r, s) == Cardinality({i \in 1..Len(s) : s[i] = r})

Handed == Concat(submitted)

\* C32: whatever the interleaving of datagram_received, the periodic flush and
\* connection_lost, each record appended to the batch is handed to
\* insert_netflow_batch at most once; an appended record is in the batch or in
\* the copy of exactly one flush; _flows is the number of records appended.
C32_EachRecordInOnePlace ==
    /\ \A r \in {appended[i] : i \in 1..Len(appended)} :
          /\ CountIn(r, Handed) <= CountIn(r, appended)
          /\ CountIn(r, appended) = CountIn(r, Handed) + CountIn(r, Taken) + CountIn(r, batch)
    /\ Len(appended) = Len(Handed) + Len(Taken) + Len(batch)
    /\ _flows = Len(appended)

C32_Witness ==
    /\ Len(submitted) = 2
    /\ Len(submitted[1]) = 3
    /\ Len(submitted[2]) = 1
    /\ task = "shutdown"
    /\ _flows = 4
    /\ batch = <<>>


\* the records of datagram d in the order of its sets and of the records in each
\* set (every data set of the datagrams received follows its template in d)
InPacketOrder(d) ==
    Concat([i \in 1..Len(d.sets) |->
              IF d.sets[i].k = "data"
              THEN ExpectedAll(d.sets[i].layout, d.sets[i].flows)
              ELSE <<>>])

\* this step appends the records of the datagram delivered last
AppendsInPacketOrder ==
    /\ parsed = rx.d
    /\ batch' = batch \o InPacketOrder(parsed[1])
    /\ appended' = appended \o InPacketOrder(parsed[1])

\* C33: the records handed to an insert_netflow_batch call are in the order in
\* which they were appended: datagrams in arrival order, and the records of one
\* datagram in the order of its sets and records; no flush reorders or
\* interleaves records.
C33_HandedInAppendOrder ==
    /\ [](appended = Handed \o Taken \o batch)
    /\ [][(batch' # batch /\ Len(batch') > Len(batch)) => AppendsInPacketOrder]_vars

C33_Witness ==
    /\ Len(submitted) = 1
    /\ submitted[1] = <<Expected("A", "X"), Expected("A", "Y"), Expected("A", "X"),
                        Expected("A", "Z")>>
    /\ pc = "fl_inserting"


\* this step is a _flush finding the batch empty
FlushFindsEmpty == pc = "fl_swap" /\ batch = <<>> /\ pc' # pc

\* C34: a flush that finds the batch empty calls insert_netflow_batch not and
\* leaves _last_flush; _last_flush is set only by a flush that took a record, and
\* before the storage write, whether the write succeeds or not.
C34_StampOnlyByTakingFlush ==
    [][/\ FlushFindsEmpty =>
            /\ _last_flush' = _last_flush
            /\ submitted' = submitted
            /\ task' = "idle"
       /\ _last_flush' # _last_flush =>
            /\ pc = "fl_stamp"
            /\ batch_copy # <<>>
            /\ _last_flush' = ts
            /\ submitted' = submitted
       /\ submitted' # submitted =>
            /\ batch_copy # <<>>
            /\ submitted' = Append(submitted, batch_copy)
            /\ _last_flush = ts
       /\ (pc = "fl_inserting" /\ pc' # pc) => _last_flush' = ts]_vars

C34_Witness ==
    /\ closed
    /\ task = "idle"
    /\ buffered = <<>>
    /\ Len(submitted) = 1
    /\ inserted = <<>>
    /\ _last_flush = batch_interval
    /\ now = 2 * batch_interval


\* ------------------------------------- a broadcast with connects and disconnects
\* the connections registered from the beginning of the broadcast until now
Throughout == (trail.registered \ trail.left) \cap _connections

\* C38: broadcast raises not when another connection is connected or disconnected
\* at one of its send awaits, and when it has returned every connection that was
\* registered throughout has been sent to.
C38_BroadcastSurvivesSetChange ==
    /\ broadcast.pc # "raised"
    /\ broadcast.pc = "returned" => Throughout \subseteq trail.sent \cup trail.failed


\* ------------------------------------------------------- UnifiClient alone
\* what the gateway answers: the status and the two CSRF headers
Responses == [status : {200, 201, 401, 500}, updated : {None, <<"">>, <<"U">>},
              csrf : {None, <<"T">>}]

InitClient ==
    /\ InitCollector
    /\ IdleClient
    /\ IdlePoller
    /\ IdleDb
    /\ IdleHealth
    /\ IdleAuth
    /\ IdleExtract
    /\ IdleAlerts
    /\ IdleWs

\* no UnifiClient call is in progress
Free == call.pc \in {"idle", "done"}
Exchange(kind, resp) == [kind |-> kind, resp |-> resp]
Ends(frame, result) == [frame EXCEPT !.pc = "done", !.result = result]

\* login() is called and its POST is sent: lines 40-45
CallLogin ==
    /\ Free
    /\ call' = Frame("login", "post", "user")
    /\ last_op' = "-"
    /\ UNCHANGED <<_csrf_token, _authenticated>>
    /\ UNCHANGED <<ovars, NotClient>>

\* ensure_auth(), lines 54-56
ensure_auth(by) ==
    IF _authenticated THEN Ends(Frame("ensure_auth", "post", by), "ok")
    ELSE Frame("ensure_auth", "post", by)

CallEnsureAuth ==
    /\ Free
    /\ call' = ensure_auth("user")
    /\ last_op' = "-"
    /\ UNCHANGED <<_csrf_token, _authenticated>>
    /\ UNCHANGED <<ovars, NotClient>>

\* _request(method, path) is called and the request is sent: lines 71-80
CallRequest ==
    /\ Free
    /\ call' = Frame("_request", "first", "user")
    /\ last_op' = "-"
    /\ UNCHANGED <<_csrf_token, _authenticated>>
    /\ UNCHANGED <<ovars, NotClient>>

\* the login POST is answered, lines 46-52; login raises, or returns to
\* ensure_auth or to its caller, or to _request, which repeats the request (line 86)
AfterLogin(frame, r) ==
    /\ _csrf_token' = r.token
    /\ _authenticated' = r.authenticated
    /\ call' = IF r.exc # NoExc THEN Ends(frame, r.exc)
               ELSE IF frame.op = "_request" THEN [frame EXCEPT !.pc = "repeat"]
               ELSE Ends(frame, "ok")

LoginResponse(resp) ==
    /\ call.pc = "post"
    /\ AfterLogin([call EXCEPT !.seen = Append(@, Exchange("login", <<resp>>))],
                  login(_csrf_token, _authenticated, resp))
    /\ last_op' = "-"
    /\ UNCHANGED <<ovars, NotClient>>

\* the request is answered, lines 81-91: the token is updated; a 401 with
\* retry_auth marks the client unauthenticated and logs in again; another status
\* than 200 and 201 raises UnifiAPIError
AfterRequest(frame, resp) ==
    /\ _csrf_token' = _update_csrf(_csrf_token, resp)
    /\ IF resp.status = 401 /\ retry_auth(call)
       THEN /\ _authenticated' = FALSE
            /\ call' = [frame EXCEPT !.pc = "post"]
       ELSE /\ _authenticated' = _authenticated
            /\ call' = Ends(frame, IF resp.status \notin {200, 201} THEN "UnifiAPIError"
                                   ELSE "ok")

RequestResponse(resp) ==
    /\ call.pc \in {"first", "repeat"}
    /\ AfterRequest([call EXCEPT !.seen = Append(@, Exchange("request", <<resp>>))], resp)
    /\ last_op' = "-"
    /\ UNCHANGED <<ovars, NotClient>>

\* session.post or session.request raises (no answer within REQUEST_TIMEOUT, the
\* connection refused): the error leaves the call
ExchangeFails ==
    /\ call.pc \in {"post", "first", "repeat"}
    /\ call' = Ends([call EXCEPT !.seen = Append(@, Exchange(IF call.pc = "post" THEN "login"
                                                             ELSE "request", <<>>))],
                    "ConnectionError")
    /\ last_op' = "-"
    /\ UNCHANGED <<_csrf_token, _authenticated>>
    /\ UNCHANGED <<ovars, NotClient>>

\* close(), lines 58-61; Poller.stop calls it from the event loop while a call
\* of the polling thread may be waiting for its answer
ClientClose ==
    /\ _authenticated' = FALSE
    /\ last_op' = "close"
    /\ UNCHANGED <<_csrf_token, call>>
    /\ UNCHANGED <<ovars, NotClient>>

NextClient ==
    \/ CallLogin
    \/ CallEnsureAuth
    \/ CallRequest
    \/ \E resp \in Responses : LoginResponse(resp)
    \/ \E resp \in Responses : RequestResponse(resp)
    \/ ExchangeFails
    \/ ClientClose

SpecClient == InitClient /\ [][NextClient]_vars

\* the exchanges of the call in progress
Made(kind) == Cardinality({i \in 1..Len(call.seen) : call.seen[i].kind = kind})
Answered401(i) ==
    /\ i <= Len(call.seen)
    /\ call.seen[i].resp # <<>>
    /\ call.seen[i].resp[1].status = 401
\* the login of this _request call raised
LoginRaised ==
    /\ Len(call.seen) = 2
    /\ call.result \in {"UnifiAuthError", "ConnectionError"}

\* C35 as stated: a _request call logs in at most once and sends the request at
\* most twice; a 401 to the first request is followed by one login and one
\* repeat; a 401 to the repeat raises UnifiAPIError.
C35_OneLoginOneRepeat ==
    call.op = "_request" =>
        /\ Made("login") <= 1 /\ Made("request") <= 2
        /\ (call.pc = "done" /\ Answered401(1)) => (Made("login") = 1 /\ Made("request") = 2)
        /\ Answered401(3) => (call.pc = "done" /\ call.result = "UnifiAPIError")

\* C35 (amended): a _request call logs in at most once and sends the request at
\* most twice; it logs in only after a 401 to the first request, and then once;
\* the request is repeated once when that login returns and not at all when it
\* raises; a 401 to the repeat raises UnifiAPIError.
C35_OneLoginRepeatAfterLogin ==
    call.op = "_request" =>
        /\ Made("login") <= 1 /\ Made("request") <= 2
        /\ Made("login") = 1 => (Answered401(1) /\ call.seen[2].kind = "login")
        /\ (call.pc = "done" /\ Answered401(1)) =>
              /\ Made("login") = 1
              /\ Made("request") = IF LoginRaised THEN 1 ELSE 2
        /\ Answered401(3) => (call.pc = "done" /\ call.result = "UnifiAPIError")

C35_Witness ==
    /\ call.op = "_request"
    /\ call.pc = "done"
    /\ Len(call.seen) = 3
    /\ Answered401(1) /\ Answered401(3)
    /\ call.seen[2].kind = "login"
    /\ call.result = "UnifiAPIError"
    /\ _authenticated

\* the call in progress has had a login answered with another status than 200
\* or with no CSRF token
LoginAnsweredWithout ==
    \E i \in 1..Len(call.seen) :
        /\ call.seen[i].kind = "login"
        /\ call.seen[i].resp # <<>>
        /\ \/ call.seen[i].resp[1].status # 200
           \/ ~Truthy(HeaderToken(call.seen[i].resp[1]))

\* C36: an authenticated client has a CSRF token stored; a login answered with
\* another status than 200 or with no CSRF token leaves the client
\* unauthenticated; close() leaves it unauthenticated.
C36_AuthenticatedHasToken ==
    /\ _authenticated => Truthy(_csrf_token)
    /\ LoginAnsweredWithout => ~_authenticated
    /\ last_op = "close" => ~_authenticated


\* --------------------------------------------------- Poller with its client
\* what the gateway answers the poller
Answers == {resp \in Responses : resp.status # 201 /\ resp.updated = None}
\* how the rest of a sub-poll ends once the client has returned the envelope:
\* _extract raises UnifiAPIError for rc other than ok, the parse or the insert
\* raises another error
Rest == {NoExc, "UnifiAPIError", "Exception"}

InitPoller ==
    /\ InitCollector
    /\ IdleClient
    /\ IdlePoller
    /\ IdleDb
    /\ IdleHealth
    /\ IdleAuth
    /\ IdleExtract
    /\ IdleAlerts
    /\ IdleWs

\* run(), lines 125-126
PollerRun ==
    /\ poll.pc = "new"
    /\ _running' = TRUE
    /\ poll' = PollFrame("sleep", 0, <<>>)
    /\ UNCHANGED <<_success_count, _error_count, _cycle_count, passed>>
    /\ UNCHANGED <<uvars, NotClient>>

\* run(), lines 128-130, and _poll_cycle, lines 141-143: the cycle is counted and
\* ensure_auth called
PollCycleBegin ==
    /\ poll.pc = "sleep"
    /\ _running
    /\ _cycle_count < MaxCycles
    /\ _cycle_count' = _cycle_count + 1
    /\ poll' = PollFrame("auth", 0, <<>>)
    /\ call' = ensure_auth("poller")
    /\ last_op' = "-"
    /\ UNCHANGED <<_running, _success_count, _error_count, passed>>
    /\ UNCHANGED <<_csrf_token, _authenticated>>
    /\ UNCHANGED NotClient

\* sub-poll i is called, line 154: its client method sends its request
SubPollBegin(i) ==
    /\ poll' = PollFrame("sub", i, Append(poll.attempted, poll_methods[i]))
    /\ call' = Frame("_request", "first", "poller")

\* the cycle ends, lines 165-171, or an exception leaves it, lines 131-132
CycleEnd ==
    /\ poll' = PollFrame("sleep", 0, poll.attempted)
    /\ call' = call

\* ensure_auth has returned or raised, lines 143-154
AuthDone ==
    /\ poll.pc = "auth"
    /\ call.pc = "done"
    /\ IF call.result = "ok"
       THEN passed' = passed + 1 /\ SubPollBegin(1)
       ELSE passed' = passed /\ CycleEnd
    /\ UNCHANGED <<_running, _success_count, _error_count, _cycle_count>>
    /\ UNCHANGED <<_csrf_token, _authenticated, last_op>>
    /\ UNCHANGED NotClient

Counts(exc) ==
    /\ _success_count' = IF Counter(exc) = "_success_count" THEN _success_count + 1
                         ELSE _success_count
    /\ _error_count' = IF Counter(exc) = "_error_count" THEN _error_count + 1
                       ELSE _error_count

AfterSubPoll(next) == IF next = 0 THEN CycleEnd ELSE SubPollBegin(next)

\* the client call of sub-poll i has returned or raised, and the sub-poll ends
\* with exc: lines 154-163, and the next sub-poll is called
SubPollEnd(rest) ==
    /\ poll.pc = "sub"
    /\ call.pc = "done"
    /\ call.result # "ok" => rest = NoExc
    /\ Counts(IF call.result # "ok" THEN call.result ELSE rest)
    /\ AfterSubPoll(NextSub(poll.i, IF call.result # "ok" THEN call.result ELSE rest))
    /\ UNCHANGED <<_running, _cycle_count, passed>>
    /\ UNCHANGED <<_csrf_token, _authenticated, last_op>>
    /\ UNCHANGED NotClient

\* stop(), lines 136-138, called from the event loop while the polling thread
\* may be in a cycle
Stop ==
    /\ _running
    /\ _running' = FALSE
    /\ _authenticated' = FALSE
    /\ last_op' = "close"
    /\ UNCHANGED <<_csrf_token, call>>
    /\ UNCHANGED <<_success_count, _error_count, _cycle_count, poll, passed>>
    /\ UNCHANGED NotClient

NextPoller ==
    \/ PollerRun
    \/ PollCycleBegin
    \/ AuthDone
    \/ \E rest \in Rest : SubPollEnd(rest)
    \/ Stop
    \/ \E resp \in Answers : LoginResponse(resp)
    \/ \E resp \in Answers : RequestResponse(resp)
    \/ ExchangeFails

SpecPoller == InitPoller /\ [][NextPoller]_vars

\* the sub-polls called so far in a cycle that is at sub-poll i
UpTo(i) == SubSeq(poll_methods, 1, i)

\* C37: in a cycle whose ensure_auth returned the four sub-polls are called in
\* the order health, devices, clients, alarms whatever the earlier ones did, and
\* each adds one to _success_count or to _error_count: between cycles the two
\* counts add up to four times the cycles that passed authentication.
C37_FourSubPollsPerCycle ==
    /\ passed <= _cycle_count
    /\ poll.pc = "sub" =>
          /\ poll.attempted = UpTo(poll.i)
          /\ _success_count + _error_count = 4 * (passed - 1) + (poll.i - 1)
    /\ poll.pc # "sub" =>
          /\ _success_count + _error_count = 4 * passed
          /\ poll.attempted \in {<<>>, poll_methods}

C37_Witness ==
    /\ poll.pc = "sleep"
    /\ poll.attempted = poll_methods
    /\ _cycle_count = 2
    /\ passed = 1
    /\ _success_count = 1
    /\ _error_count = 3
    /\ call.result = "ok"

====
